---- MODULE Spec2Model ----
(***************************************************************************)
(* A model of the batch indexer (indexer_go) of the hybrid search          *)
(* platform: the embedding client, the document cache, the two-phase       *)
(* indexing pipeline and the streaming pipeline; and of the search         *)
(* service of the backend.                                                 *)
(*                                                                         *)
(* The module holds several specifications over one set of variables.      *)
(* Each specification drives one group of variables and leaves the others  *)
(* parked at their initial values:                                         *)
(*   SpecEmb    several concurrent GetEmbeddings calls on one client       *)
(*   SpecRetry  one GetEmbeddings call, MaxRetries up to MaxRetriesBound   *)
(*   SpecIdx    Phase 2 and the streaming pipeline Run against the engine  *)
(*              and the authoritative store                                *)
(*   SpecPhase2 Phase 2 alone, run repeatedly on the caches Phase 1 leaves *)
(*   SpecP1     Phase 1 runs, process crashes and restarts                 *)
(*   SpecP1Live one Phase 1 run under fair scheduling of its goroutines    *)
(*   SpecCache  concurrent calls of the cache's methods                    *)
(*   SpecSync   the calls of BulkUpdateOpenSearchIDs of Phase 2 and of Run *)
(*   SpecReindex one ReindexFull                                           *)
(*   SpecSearch requests to the search service (SearchService.search)      *)
(*   SpecKey    _getCacheKey on pairs of equivalent requests               *)
(*   SpecScore  a sort=normalized query on an index of scored documents    *)
(*   SpecFilter _buildFilters and the engine's nested matching             *)
(*   SpecMapping the engine documents Phase 2 and Run build from a record  *)
(*   SpecCreate calls of CreateIndex                                       *)
(*   SpecGap    the embedding client with a clock                          *)
(*   SpecEmbedQuery calls of EmbeddingService.embedQuery                    *)
(*   SpecMode   the main query of search for each sort, on one document     *)
(*   SpecP1Resume one Phase 1 run on a saved cache after record 1 was       *)
(*              indexed and cross-referenced                                *)
(*   SpecRunLive one Run, its goroutines scheduled fairly                   *)
(*   SpecCount  one command, Phase 1, Phase 2 or Run, and its counters     *)
(*   SpecP1Seq  Phase 1 runs with changing arguments, from a cleared cache  *)
(*   SpecKeyFull the key payload of two requests with all their fields     *)
(***************************************************************************)
EXTENDS Integers, Sequences, FiniteSets, TLC

(***************************************************************************)
(* Bounds of the model.                                                    *)
(***************************************************************************)
\* number of goroutines that call GetEmbeddings on the one client (SpecEmb)
NumCallers == 3
\* largest cfg.MaxRetries of SpecEmb
SmallRetries == 2
\* largest cfg.MaxRetries of SpecRetry
MaxRetriesBound == 36
\* number of authoritative records
NumDocs == 3

\* the size of the collection where Phase 2 and Run are explored
NumIdxDocs == 2
\* number of engine ids the engine hands out in one behaviour
MaxOsIds == 3
\* cfg.OpenSearchBulkSize (100 in config.Load)
OpenSearchBulkSize == 1
\* cfg.MongoBatchSize (100 in config.Load)
MongoBatchSize == 2
\* cfg.EmbedBatchSize (128 in config.Load)
EmbedBatchSize == 1
\* cfg.NumWorkers (8 in config.Load)
NumWorkers == 1

\* goroutines that call AddEntry / AddEntries on one cache
NumCacheWriters == 2
\* goroutines that call IsProcessed / GetEntries / Count on it
NumCacheReaders == 2
\* calls each writer makes
MaxAddCalls == 1
\* calls each reader makes
MaxReadCalls == 2
\* ids of the entries they add and ask for
NumCacheIds == 2

\* search service: concurrent requests, calls of search, hits of one query
NumSearchSlots == 2

MaxSearches == 2

MaxHits == 2

\* documents that match a normalized query (SpecScore)
NumScoredDocs == 2

\* authors of an engine document (SpecFilter)
MaxAuthors == 2

\* subject areas of a record (SpecMapping)
MaxSubjectAreas == 2

\* calls of CreateIndex (SpecCreate)
MaxCreateCalls == 3

\* the clock of SpecGap: its step and its end, in milliseconds
TickMs == 100

MaxTimeMs == 1200

\* HTTP requests recorded in SpecGap
MaxGapRequests == 3

\* calls of embedQuery (SpecEmbedQuery)
MaxEmbedCalls == 3

(***************************************************************************)
(* Program constants.                                                      *)
(***************************************************************************)
\* embedding.NewClient: maxConcurrent := 2
maxConcurrent == 2

\* GetEmbeddings: the minimum gap, 100*time.Millisecond
MinGapMs == 100

VARIABLES
    \* ---- embedding client (package embedding) ----
    semaphore,   \* number of tokens held in Client.semaphore (a buffered channel)
    ctxDone,     \* the context passed to GetEmbeddings is cancelled
    maxRetries,  \* cfg.MaxRetries
    callers,     \* the goroutines that call GetEmbeddings
    epc,         \* per caller: position inside GetEmbeddings
    attempt,     \* per caller: the loop variable attempt
    lastErr,     \* per caller: lastErr, 0 = nil, i+1 = the error of attempt i
    nreq,        \* per caller: number of doRequest calls issued by the current call
    sleeps,      \* per caller: the backoff sleeps of the current call, in seconds
    eret,        \* per caller: what the call returned
    \* ---- document cache (package cache) ----
    centries,     \* Cache.entries: the authoritative ids of the entries, in order
    processedIDs, \* Cache.processedIDs
    cmeta,        \* Cache.metadata
    metaFile,     \* metadata.gob on disk
    entriesFile,  \* embeddings.gob on disk
    lastSaved,    \* the entries written by the last Save that ran to its end
    \* ---- authoritative store and engine ----
    openSearchId, \* per authoritative record: open_search_id, 0 = empty
    engine,       \* the engine documents: [id, mongo_id]
    nextOsId,     \* the next _id the engine generates
    indexExists,  \* the index exists
    collection,   \* the authoritative ids of the records in the collection
    \* ---- the command that runs ----
    cmd,          \* "none", "phase1", "phase2", "run"
    \* ---- Phase1FetchAndEmbed ----
    p1pc,         \* position: "idle", "count", "stream", "wait", "save", "done"
    p1ret,        \* what Phase 1 returned: "none", "nil", "err"
    p1limit,      \* the flag limit
    p1reindexAll, \* the flag reindexAll
    cacheMu,      \* the worker that holds cacheMu, 0 = unlocked
    svpc,         \* position of the Save in progress: "none", "meta", "create", "entries"
    tpc,          \* the progress goroutine: "none", "run", "done"
    processed,    \* the counter processed
    p1errors,     \* the counter errors
    skipped,      \* the counter skipped
    loaded,       \* the ids in the cache when this run had loaded it
    embedSent,    \* the ids this run has sent to the embedding service
    embedOk,      \* the ids for which a GetEmbeddings call of this run returned embeddings
    dropped,      \* the ids of the batches this run gave up after a failed call
    finalSave,    \* the Save after wg.Wait(): "none", "ok", "err"
    autosaveErr,  \* history: a periodic Save of this run returned an error
    resumed,      \* the process before this one was killed in the middle of Phase 1
    \* ---- Phase2IndexAndUpdate ----
    p2pc,         \* position: "idle", "index", "sync", "done"
    p2entries,    \* entries := idx.cache.GetEntries()
    p2i,          \* i of the slice loop
    mongoUpdates, \* the collected []mongodb.IDUpdate
    p2j,          \* i of the back-sync loop
    indexed,      \* the counter indexed
    p2errors,     \* the counter errors
    p2ret,        \* what Phase 2 returned: "none", "nil", "err"
    p2accepted,   \* authoritative ids whose bulk item came back 2xx in this run
    p2failed,     \* authoritative ids of the slices whose bulk request failed as a whole
    p2synced,     \* authoritative ids whose back-sync batch was written without error
    p2prev,       \* the state left by the Phase 2 run just before this one
    \* ---- StreamDocuments ----
    cursor,       \* the documents the cursor has still to return
    docChan,      \* the channel docChan
    docClosed,    \* docChan is closed
    streamed,     \* history: the number of documents StreamDocuments has sent
    spc,          \* the streaming goroutine: "none", "run", "done"
    \* ---- the batch collector ----
    batch,        \* the batch being collected
    bpc,          \* "none", "recv", "send", "sendLast", "done"
    batchChan,    \* the channel batchChan
    batchClosed,  \* batchChan is closed
    batchLog,     \* history: the batches the collector has sent, in order
    \* ---- the embed workers ----
    wpc,          \* per worker: "none", "recv", "embed", "send", "lock", "save", "done"
    wdocs,        \* per worker: docs, the batch taken from batchChan (<<>> out of its scope)
    wi,           \* per worker: i of the sub-batch loop
    \* ---- Run: index workers, sync worker, main ----
    rpc,          \* Run's goroutine: "idle", "waitIndex", "waitMongo", "done"
    rret,         \* what Run returned: "none", "nil", "err"
    embeddedChan, \* the channel embeddedChan
    embeddedClosed,
    ipc,          \* per index worker: "none", "recv", "send", "done"
    iupd,         \* per index worker: updates, to be sent to mongoUpdateChan
    mongoUpdateChan,
    updClosed,    \* mongoUpdateChan is closed
    mpc,          \* the MongoDB update worker: "none", "recv", "done"
    successCount,
    errorCount,
    \* ---- calls of the cache's methods from concurrent goroutines ----
    muW,          \* Cache.mu: the goroutine that holds it for writing, 0 when none
    muR,          \* Cache.mu: the goroutines that hold it for reading
    kpc,          \* per goroutine: "idle", "lock", "append", "mark", "unlock", "rlock", "read", "runlock"
    kop,          \* per goroutine: the method it is in (kept after the return for IsProcessed)
    karg,         \* per goroutine: the ids of the entries (or the id) passed to the call
    ki,           \* per goroutine: i of the loop of AddEntries
    kres,         \* per goroutine: what its read returns (kept after the return for IsProcessed)
    kcalls,       \* per goroutine: calls made
    known,        \* ids of entries that a returned Add call added or a returned GetEntries showed
    kbefore,      \* per goroutine: known, at the time its call was made
    \* ---- the back-sync calls ----
    upc,          \* per back-sync goroutine: "none", "recv", "update", "done"
    uflight,      \* per back-sync goroutine: the updates of its call in flight
    unext,        \* Run: update lists the index workers have queued
    \* ---- ReindexFull ----
    fpc,          \* "idle", the step it is at, "inPhase1", "inPhase2", "done"
    flog,         \* the steps it has started, in order
    fret,         \* "none", "nil", "err"
    ffailed,      \* the last step that failed, "none" when none did
    \* ---- search service ----
    redis,        \* result cache: cache key -> stored response, NoCached when none
    srpc,         \* request -> "idle", the await it is at, "done"
    sreq,         \* request -> what was asked
    shad,         \* request -> the cache entry of its key when it was called
    scalls,       \* request -> the calls it has made to other services
    sbm25,        \* request -> match count of its pre-check, -1 before it
    shits,        \* request -> hits of its main query
    stotal,       \* request -> total of its main query
    sfound,       \* request -> ids of the records its batch lookup found
    sresults,     \* request -> hydrated results
    sres,         \* request -> what search returned (or the status it failed with)
    scount,       \* number of calls of search so far
    \* ---- calls of pure functions ----
    fnName,       \* the function that was called, "none" before the call
    fnArgs,       \* its arguments
    fnResult,     \* what it returned
    \* ---- the embedding client's clock (milliseconds) ----
    now,          \* time.Now()
    lastReq,      \* Client.lastReq
    reqDue,       \* per caller: when its next request starts (gate passed / sleep over)
    reqStarts     \* history: the start times of the HTTP requests, in order

embVars == <<semaphore, maxRetries, callers, epc, attempt, lastErr, nreq, sleeps, eret>>

cacheVars == <<centries, processedIDs, cmeta, metaFile, entriesFile, lastSaved>>

storeVars == <<openSearchId, engine, nextOsId, indexExists, collection>>

p1Vars == <<p1pc, p1ret, p1limit, p1reindexAll, cacheMu, svpc, tpc, processed, p1errors, skipped,
           loaded, embedSent, embedOk, dropped, finalSave, autosaveErr, resumed>>

p2Locals == <<p2pc, p2entries, p2i, mongoUpdates, p2j, indexed, p2errors, p2ret, p2accepted, p2failed, p2synced>>

p2Vars == <<p2Locals, p2prev>>

streamVars == <<cursor, docChan, docClosed, spc, streamed>>

batchVars == <<batch, bpc, batchChan, batchClosed, batchLog>>

workerVars == <<wpc, wdocs, wi>>

runVars == <<rpc, rret, embeddedChan, embeddedClosed, ipc, iupd, mongoUpdateChan,
             updClosed, mpc, successCount, errorCount>>

pipeVars == <<streamVars, batchVars, workerVars, runVars>>

callVars == <<muW, muR, kpc, kop, karg, ki, kres, kcalls, known, kbefore>>

\* the variables of the components that follow the indexing pipeline
syncVars == <<upc, uflight, unext>>

reindexVars == <<fpc, flog, fret, ffailed>>

searchVars == <<redis, srpc, sreq, shad, scalls, sbm25, shits, stotal, sfound, sresults, sres, scount>>

fnVars == <<fnName, fnArgs, fnResult>>

gapVars == <<now, lastReq, reqDue, reqStarts>>

restCore == <<callVars, syncVars, reindexVars, searchVars, fnVars>>

restVars == <<restCore, gapVars>>

vars == <<ctxDone, embVars, cacheVars, storeVars, cmd, p1Vars, p2Vars, pipeVars, restVars>>

\* what the embedding client's actions leave alone
notEmb == <<cacheVars, storeVars, cmd, p1Vars, p2Vars, pipeVars, restCore>>

Callers == 1..NumCallers

Min(a, b) == IF a < b THEN a ELSE b

RECURSIVE Pow2(_)
Pow2(n) == IF n <= 0 THEN 1 ELSE 2 * Pow2(n - 1)

(***************************************************************************)
(* The backoff of GetEmbeddings,                                           *)
(*     backoff := time.Duration(1<<attempt) * time.Second                  *)
(*     if backoff > 10*time.Second { backoff = 10 * time.Second }          *)
(*     time.Sleep(backoff)                                                 *)
(* time.Duration is an int64 count of nanoseconds and the product wraps    *)
(* modulo 2^64.  time.Second = 10^9 = 1953125 * 2^9 and 1953125 < 2^21, so *)
(* the product is the 21-bit number 1953125 shifted left by attempt+9 and  *)
(* cut to 64 bits.  BackoffMant is what is left of the 21 bits after the   *)
(* cut; the int64 value is BackoffMant * 2^(attempt+9), negative when its  *)
(* bit 63 is set.                                                          *)
(***************************************************************************)
BackoffShift(a) == a + 9

BackoffMant(a) ==
    IF BackoffShift(a) >= 64 THEN 0
    ELSE 1953125 % Pow2(Min(64 - BackoffShift(a), 21))

BackoffNegative(a) ==
    /\ BackoffShift(a) < 64
    /\ 63 - BackoffShift(a) < 21
    /\ BackoffMant(a) >= Pow2(63 - BackoffShift(a))

\* backoff > 10*time.Second, for a non-negative backoff:
\* BackoffMant * 2^(a+9) > 19531250 * 2^9
BackoffOverTen(a) ==
    IF a >= 25 THEN BackoffMant(a) >= 1
    ELSE BackoffMant(a) > 19531250 \div Pow2(a)

\* The seconds time.Sleep(backoff) waits: a duration <= 0 returns at once.
BackoffSeconds(a) ==
    IF BackoffNegative(a) \/ BackoffMant(a) = 0 THEN 0
    ELSE IF BackoffOverTen(a) THEN 10
    ELSE Pow2(a)

(***************************************************************************)
(* Client.GetEmbeddings, one action per blocking point.                    *)
(***************************************************************************)
\* The deferred release of the semaphore, run when the call returns.
ReleaseSemaphore == semaphore' = semaphore - 1

\* Entry of GetEmbeddings with n texts; len(texts) == 0 returns at once.
GetEmbeddings(c, n) ==
    /\ c \in callers
    /\ epc[c] = "idle"
    /\ IF n = 0
       THEN /\ epc' = [epc EXCEPT ![c] = "done"]
            /\ eret' = [eret EXCEPT ![c] = "ok"]
       ELSE /\ epc' = [epc EXCEPT ![c] = "acquire"]
            /\ eret' = [eret EXCEPT ![c] = "none"]
    /\ attempt' = [attempt EXCEPT ![c] = 0]
    /\ lastErr' = [lastErr EXCEPT ![c] = 0]
    /\ nreq' = [nreq EXCEPT ![c] = 0]
    /\ sleeps' = [sleeps EXCEPT ![c] = <<>>]
    /\ UNCHANGED <<semaphore, ctxDone, maxRetries, callers, notEmb>>

\* A semaphore send that never blocks (an unbuffered count).
AcquireSlotUnbounded(c) ==
    /\ semaphore' = semaphore + 1
    /\ epc' = [epc EXCEPT ![c] = "rate"]
    /\ UNCHANGED eret

\* select { case c.semaphore <- struct{}{}: ... case <-ctx.Done(): return ctx.Err() }
AcquireSlot(c) ==
    /\ semaphore < maxConcurrent
    /\ semaphore' = semaphore + 1
    /\ epc' = [epc EXCEPT ![c] = "rate"]
    /\ UNCHANGED eret

AcquireCancelled(c) ==
    /\ ctxDone
    /\ epc' = [epc EXCEPT ![c] = "done"]
    /\ eret' = [eret EXCEPT ![c] = "ctxErr"]
    /\ UNCHANGED semaphore

Acquire(c) ==
    /\ epc[c] = "acquire"
    /\ (AcquireSlot(c) \/ AcquireCancelled(c))
    /\ UNCHANGED <<ctxDone, maxRetries, callers, attempt, lastErr, nreq, sleeps, notEmb>>

\* c.mu.Lock(); sleep up to 100 ms; c.lastReq = time.Now(); c.mu.Unlock()
RateLimit(c) ==
    /\ epc[c] = "rate"
    /\ epc' = [epc EXCEPT ![c] = IF attempt[c] < maxRetries THEN "attempt" ELSE "done"]
    /\ eret' = [eret EXCEPT ![c] = IF attempt[c] < maxRetries THEN "none" ELSE "failed"]
    /\ semaphore' = IF attempt[c] < maxRetries THEN semaphore ELSE semaphore - 1
    /\ UNCHANGED <<ctxDone, maxRetries, callers, attempt, lastErr, nreq, sleeps, notEmb>>

\* One turn of the retry loop up to the sleep: doRequest, and what follows it.
\* A request made with a cancelled context fails.
DoRequest(c, ok) ==
    /\ epc[c] = "attempt"
    /\ ctxDone => ~ok
    /\ nreq' = [nreq EXCEPT ![c] = @ + 1]
    /\ IF ok
       THEN /\ epc' = [epc EXCEPT ![c] = "done"]
            /\ eret' = [eret EXCEPT ![c] = "ok"]
            /\ ReleaseSemaphore
            /\ UNCHANGED <<attempt, lastErr>>
       ELSE /\ lastErr' = [lastErr EXCEPT ![c] = attempt[c] + 1]
            /\ IF attempt[c] < maxRetries - 1
               THEN /\ epc' = [epc EXCEPT ![c] = "backoff"]
                    /\ UNCHANGED <<attempt, eret, semaphore>>
               ELSE /\ attempt' = [attempt EXCEPT ![c] = @ + 1]
                    /\ epc' = [epc EXCEPT ![c] = "done"]
                    /\ eret' = [eret EXCEPT ![c] = "failed"]
                    /\ ReleaseSemaphore
    /\ UNCHANGED <<ctxDone, maxRetries, callers, sleeps, notEmb>>

\* time.Sleep(backoff), then attempt++ and the next turn of the loop.
Backoff(c) ==
    /\ epc[c] = "backoff"
    /\ sleeps' = [sleeps EXCEPT ![c] = Append(@, BackoffSeconds(attempt[c]))]
    /\ attempt' = [attempt EXCEPT ![c] = @ + 1]
    /\ epc' = [epc EXCEPT ![c] = "attempt"]
    /\ UNCHANGED <<semaphore, ctxDone, maxRetries, callers, lastErr, nreq, eret, notEmb>>

\* The caller takes the result; it may call again.
EmbedReturn(c) ==
    /\ epc[c] = "done"
    /\ epc' = [epc EXCEPT ![c] = "idle"]
    /\ UNCHANGED <<semaphore, ctxDone, maxRetries, callers, attempt, lastErr, nreq, sleeps, eret, notEmb>>

\* cancel() of the context the callers share.
CancelCtx ==
    /\ ~ctxDone
    /\ ctxDone' = TRUE
    /\ UNCHANGED <<embVars, restVars, notEmb>>

(***************************************************************************)
(* The authoritative store (package mongodb) and the engine (package       *)
(* opensearch).                                                            *)
(***************************************************************************)
MongoIds == 1..NumDocs

Range(q) == {q[i] : i \in DOMAIN q}

\* the sequences over S without repetition
DistinctSeqs(S) ==
    {q \in UNION {[1..n -> S] : n \in 0..Cardinality(S)} :
        \A i, j \in DOMAIN q : q[i] = q[j] => i = j}

\* A bulk response: one item per document of the request, in request order;
\* the engine gives the documents it accepts fresh ids in item order.
BulkResponse(docs, acc) ==
    [i \in 1..Len(docs) |->
        IF i \in acc
        THEN [status |-> 201, id |-> nextOsId + Cardinality({j \in acc : j < i})]
        ELSE [status |-> 429, id |-> 0]]

\* The engine's side of a bulk request: an `index` action without _id per
\* document, so every accepted document becomes a new engine document.
EngineIndex(docs, items) ==
    /\ engine' = engine \cup
           {[id |-> items[i].id, mongo_id |-> docs[i]] :
                i \in {k \in 1..Len(docs) : items[k].status \in 200..299}}
    /\ nextOsId' = nextOsId
           + Cardinality({k \in 1..Len(docs) : items[k].status \in 200..299})

\* a BulkIndex that maps every document to the _id of its item, whatever
\* the item's status
IdMapAnyStatus(docs, items) ==
    [m \in {docs[k] : k \in 1..Len(docs)} |->
        items[CHOOSE k \in 1..Len(docs) : docs[k] = m].id]

\* BulkIndex, the client's side: mongo_id -> _id of the items with a 2xx status.
IdMap(docs, items) ==
    LET ok == {k \in 1..Len(docs) : items[k].status >= 200 /\ items[k].status < 300}
    IN  [m \in {docs[k] : k \in ok} |->
            LET mine == {k \in ok : docs[k] = m}
                last == CHOOSE k \in mine : \A j \in mine : j <= k
            IN  items[last].id]

\* for _, entry := range batch { if osID, ok := idMap[...]; ok { append } }
CollectUpdates(docs, idMap) ==
    LET hit == SelectSeq(docs, LAMBDA m : m \in DOMAIN idMap)
    IN  [k \in 1..Len(hit) |-> [MongoID |-> hit[k], OpenSearchID |-> idMap[hit[k]]]]

\* A store that loses the first update of every bulk write.
ApplyUpdatesSkipFirst(updates, applied) ==
    [m \in MongoIds |->
        IF \E k \in applied \ {1} : updates[k].MongoID = m
        THEN updates[CHOOSE k \in applied \ {1} : updates[k].MongoID = m].OpenSearchID
        ELSE openSearchId[m]]

\* The store after the updates with index in `applied` were written.
ApplyUpdates(updates, applied) ==
    [m \in MongoIds |->
        IF \E k \in applied : updates[k].MongoID = m
        THEN updates[CHOOSE k \in applied :
                        /\ updates[k].MongoID = m
                        /\ \A j \in applied : updates[j].MongoID = m => j <= k].OpenSearchID
        ELSE openSearchId[m]]

\* BulkUpdateOpenSearchIDs: one unordered BulkWrite.  Without error every
\* update is written; with an error any part of them may have been, and none
\* when the context was already cancelled.
BulkUpdateOpenSearchIDs(updates, applied, err) ==
    /\ ctxDone => (err /\ applied = {})
    /\ ~err => applied = 1..Len(updates)
    /\ openSearchId' = ApplyUpdates(updates, applied)

\* How the engine answers one CreateIndex call: the existence check is
\* answered truthfully (200 or 404), answered with another status, or fails
\* without an answer; and whether a create request for a missing index
\* succeeds.
CreateOutcomes == {"answered", "otherStatus", "error"} \X BOOLEAN

\* a CreateIndex that sends the create request without looking
CreateIndexSendsBlind(exists, how) == how[1] # "error"

\* CreateIndex sends the create request unless the check failed or was
\* answered 200
CreateIndexSends(exists, how) ==
    /\ how[1] # "error"
    /\ ~(how[1] = "answered" /\ exists)

\* what CreateIndex returns; the engine rejects the creation of an index
\* that exists
CreateIndexReturn(exists, how) ==
    IF how[1] = "error" THEN "err"
    ELSE IF ~CreateIndexSends(exists, how) THEN "nil"
    ELSE IF exists \/ ~how[2] THEN "err"
    ELSE "nil"

\* CreateIndex: nothing to do when the index exists, else create it.
CreateIndex(how) ==
    indexExists' = (indexExists \/ (CreateIndexSends(indexExists, how) /\ how[2]))

(***************************************************************************)
(* The document cache: two gob files, metadata.gob and embeddings.gob.     *)
(* A file is absent, partial (created or cut off in the middle of a write: *)
(* gob's Decode fails on it) or complete.                                  *)
(***************************************************************************)
Absent == [st |-> "absent"]

Partial == [st |-> "partial"]

NoMeta == [TotalDocs |-> 0, ReindexAll |-> FALSE]

\* NewCache: what a new process starts with
NewCache ==
    /\ centries = <<>>
    /\ processedIDs = {}
    /\ cmeta = NoMeta

\* Cache.Load
LoadOutcome ==
    IF metaFile.st = "absent"
    THEN [err |-> FALSE, entries |-> centries, ids |-> processedIDs, meta |-> cmeta]
    ELSE IF metaFile.st = "partial"
    THEN [err |-> TRUE, entries |-> centries, ids |-> processedIDs, meta |-> cmeta]
    ELSE IF entriesFile.st # "ok"
    THEN [err |-> TRUE, entries |-> centries, ids |-> processedIDs, meta |-> metaFile.meta]
    ELSE [err |-> FALSE, entries |-> entriesFile.entries,
          ids |-> Range(entriesFile.entries), meta |-> metaFile.meta]

Load ==
    /\ centries' = LoadOutcome.entries
    /\ processedIDs' = LoadOutcome.ids
    /\ cmeta' = LoadOutcome.meta

(***************************************************************************)
(* Phase2IndexAndUpdate.  It runs on the one goroutine of the command; the *)
(* steps are its calls to the cache, the engine and the store.             *)
(***************************************************************************)
Phase2Return(ret) ==
    /\ p2pc' = "done"
    /\ p2ret' = ret

\* Steps 1 and 2: load the cache, ensure the index exists.
Phase2IndexAndUpdate(createOk) ==
    /\ cmd = "none"
    /\ cmd' = "phase2"
    /\ Load
    /\ p2entries' = LoadOutcome.entries
    /\ p2i' = 0
    /\ p2j' = 0
    /\ mongoUpdates' = <<>>
    /\ indexed' = 0
    /\ p2errors' = 0
    /\ p2accepted' = {}
    /\ p2failed' = {}
    /\ p2synced' = {}
    /\ IF LoadOutcome.err
       THEN Phase2Return("err") /\ UNCHANGED indexExists
       ELSE IF LoadOutcome.entries = <<>>
       THEN Phase2Return("nil") /\ UNCHANGED indexExists
       ELSE /\ CreateIndex(createOk)
            /\ IF CreateIndexReturn(indexExists, createOk) = "nil"
               THEN p2pc' = "index" /\ p2ret' = "none"
               ELSE Phase2Return("err")
    /\ UNCHANGED <<ctxDone, embVars, restVars, metaFile, entriesFile, lastSaved, openSearchId, engine, nextOsId,
                   collection, p2prev, pipeVars, p1Vars>>

\* A slice loop that gives up at the first bulk request that fails.
Phase2IndexSliceAbort(acc, err) ==
    /\ cmd = "phase2"
    /\ p2pc = "index"
    /\ LET end == Min(p2i + OpenSearchBulkSize, Len(p2entries))
           slice == SubSeq(p2entries, p2i + 1, end)
           items == BulkResponse(slice, acc)
           idMap == IdMap(slice, items)
           upd == IF err THEN mongoUpdates
                  ELSE mongoUpdates \o CollectUpdates(slice, idMap)
       IN  IF ctxDone
           THEN /\ Phase2Return("err")
                /\ UNCHANGED <<p2i, mongoUpdates, indexed, p2errors, p2accepted, p2failed,
                               engine, nextOsId>>
           ELSE /\ acc \subseteq 1..Len(slice)
                /\ err => acc = {}
                /\ nextOsId + Cardinality(acc) <= MaxOsIds + 1
                /\ EngineIndex(slice, items)
                /\ indexed' = IF err THEN indexed
                              ELSE indexed + Cardinality(DOMAIN idMap)
                /\ p2errors' = IF err THEN p2errors + Len(slice)
                               ELSE p2errors + (Len(slice) - Cardinality(DOMAIN idMap))
                /\ mongoUpdates' = upd
                /\ p2accepted' = p2accepted \cup {slice[k] : k \in acc}
                /\ p2failed' = IF err THEN p2failed \cup Range(slice) ELSE p2failed
                /\ p2i' = p2i + OpenSearchBulkSize
                /\ IF err
                   THEN Phase2Return("err")
                   ELSE IF p2i + OpenSearchBulkSize < Len(p2entries)
                   THEN UNCHANGED <<p2pc, p2ret>>
                   ELSE IF upd = <<>>
                   THEN Phase2Return("nil")
                   ELSE p2pc' = "sync" /\ p2ret' = "none"
    /\ UNCHANGED <<ctxDone, embVars, restVars, cacheVars, openSearchId, indexExists, collection, cmd,
                   p2entries, p2j, p2synced, p2prev, pipeVars, p1Vars>>

\* One turn of the slice loop: the cancellation check, BulkIndex of the
\* slice, the counters, the updates collected from the slice.
Phase2IndexSlice(acc, err) ==
    /\ cmd = "phase2"
    /\ p2pc = "index"
    /\ LET end == Min(p2i + OpenSearchBulkSize, Len(p2entries))
           slice == SubSeq(p2entries, p2i + 1, end)
           items == BulkResponse(slice, acc)
           idMap == IdMap(slice, items)
           upd == IF err THEN mongoUpdates
                  ELSE mongoUpdates \o CollectUpdates(slice, idMap)
       IN  IF ctxDone
           THEN /\ Phase2Return("err")
                /\ UNCHANGED <<p2i, mongoUpdates, indexed, p2errors, p2accepted, p2failed,
                               engine, nextOsId>>
           ELSE /\ acc \subseteq 1..Len(slice)
                /\ err => acc = {}
                /\ nextOsId + Cardinality(acc) <= MaxOsIds + 1
                /\ EngineIndex(slice, items)
                /\ indexed' = IF err THEN indexed
                              ELSE indexed + Cardinality(DOMAIN idMap)
                /\ p2errors' = IF err THEN p2errors + Len(slice)
                               ELSE p2errors + (Len(slice) - Cardinality(DOMAIN idMap))
                /\ mongoUpdates' = upd
                /\ p2accepted' = p2accepted \cup {slice[k] : k \in acc}
                /\ p2failed' = IF err THEN p2failed \cup Range(slice) ELSE p2failed
                /\ p2i' = p2i + OpenSearchBulkSize
                /\ IF p2i + OpenSearchBulkSize < Len(p2entries)
                   THEN UNCHANGED <<p2pc, p2ret>>
                   ELSE IF upd = <<>>
                   THEN Phase2Return("nil")
                   ELSE p2pc' = "sync" /\ p2ret' = "none"
    /\ UNCHANGED <<ctxDone, embVars, restVars, cacheVars, openSearchId, indexExists, collection, cmd,
                   p2entries, p2j, p2synced, p2prev, pipeVars, p1Vars>>

\* One turn of the back-sync loop: a failed batch is only warned about.
Phase2SyncBatch(applied, err) ==
    /\ cmd = "phase2"
    /\ p2pc = "sync"
    /\ LET end == Min(p2j + OpenSearchBulkSize, Len(mongoUpdates))
           slice == SubSeq(mongoUpdates, p2j + 1, end)
       IN  /\ applied \subseteq 1..Len(slice)
           /\ BulkUpdateOpenSearchIDs(slice, applied, err)
           /\ p2synced' = IF err THEN p2synced
                          ELSE p2synced \cup {slice[k].MongoID : k \in 1..Len(slice)}
           /\ p2j' = p2j + OpenSearchBulkSize
           /\ IF p2j + OpenSearchBulkSize < Len(mongoUpdates)
              THEN UNCHANGED <<p2pc, p2ret>>
              ELSE Phase2Return("nil")
    /\ UNCHANGED <<ctxDone, embVars, restVars, cacheVars, engine, nextOsId, indexExists, collection, cmd,
                   p2entries, p2i, mongoUpdates, indexed, p2errors, p2accepted, p2failed, p2prev,
                   pipeVars, p1Vars>>

(***************************************************************************)
(* StreamDocuments, the batch collector and the embed workers, shared by   *)
(* Phase 1 and by Run; then the stages only Run has.                       *)
(***************************************************************************)
Max(a, b) == IF a > b THEN a ELSE b

\* no Phase 2 run to compare the next one with
NoPrev == [entries |-> <<>>, engine |-> {}, ids |-> [m \in MongoIds |-> 0], clean |-> FALSE]

\* workers := max(2, idx.cfg.NumWorkers), for the embed and the index workers
Workers == 1..Max(2, NumWorkers)

DocChanCap == MongoBatchSize * 2

BatchChanCap == NumWorkers * 2

EmbeddedChanCap == NumWorkers * 2

MongoUpdateChanCap == NumWorkers * 4

\* the filter of CountDocumentsToIndex and StreamDocuments
Selected(reindexAll) == {m \in collection : reindexAll \/ openSearchId[m] = 0}

RECURSIVE SortedSeq(_)
SortedSeq(S) ==
    IF S = {} THEN <<>>
    ELSE LET lo == CHOOSE x \in S : \A y \in S : x <= y
         IN  <<lo>> \o SortedSeq(S \ {lo})

\* what the cursor of StreamDocuments returns: the selected documents in
\* the collection's order, cut to limit when limit > 0
QueryResult(reindexAll, limit) ==
    LET sel == SortedSeq(Selected(reindexAll))
    IN  IF limit > 0 THEN SubSeq(sel, 1, Min(limit, Len(sel))) ELSE sel

\* total of Phase 1 and of Run
CountTotal(reindexAll, limit) ==
    LET total == Cardinality(Selected(reindexAll))
    IN  IF limit > 0 /\ limit < total THEN limit ELSE total

\* The streaming goroutine: cursor.Next, Decode, send on docChan.  Documents
\* the driver has already buffered are still returned after a cancellation.
StreamSend ==
    /\ spc = "run"
    /\ cursor # <<>>
    /\ Len(docChan) < DocChanCap
    /\ docChan' = Append(docChan, Head(cursor))
    /\ cursor' = Tail(cursor)
    /\ streamed' = streamed + 1
    /\ UNCHANGED <<docClosed, spc>>

\* cursor.Next returned false, or the select took ctx.Done(): close(docChan)
StreamExit ==
    /\ spc = "run"
    /\ cursor = <<>> \/ ctxDone
    /\ spc' = "done"
    /\ docClosed' = TRUE
    /\ UNCHANGED <<cursor, docChan, streamed>>

StreamDocuments ==
    /\ StreamSend \/ StreamExit
    /\ UNCHANGED <<ctxDone, embVars, restVars, cacheVars, storeVars, cmd, p2Vars,
                   batchVars, workerVars, runVars, p1Vars>>

\* Run's batch collector takes a document from docChan.
RunBatcherRecv ==
    /\ cmd = "run"
    /\ bpc = "recv"
    /\ docChan # <<>>
    /\ docChan' = Tail(docChan)
    /\ batch' = Append(batch, Head(docChan))
    /\ bpc' = IF Len(batch) + 1 >= MongoBatchSize THEN "send" ELSE "recv"
    /\ UNCHANGED <<ctxDone, embVars, restVars, cacheVars, storeVars, cmd, p2Vars,
                   cursor, docClosed, spc, streamed, batchChan, batchClosed, batchLog, workerVars, runVars, p1Vars>>

\* docChan is closed and empty: the range loop ends.
BatcherDrained ==
    /\ bpc = "recv"
    /\ docChan = <<>>
    /\ docClosed
    /\ IF batch # <<>>
       THEN bpc' = "sendLast" /\ UNCHANGED batchClosed
       ELSE bpc' = "done" /\ batchClosed' = TRUE
    /\ UNCHANGED <<ctxDone, embVars, restVars, cacheVars, storeVars, cmd, p2Vars,
                   streamVars, batch, batchChan, batchLog, workerVars, runVars, p1Vars>>

\* a batch collector that returns on ctx.Done() without closing batchChan
BatcherSendCancelledNoClose ==
    /\ ctxDone
    /\ bpc' = "done"
    /\ UNCHANGED <<batch, batchChan, batchClosed, batchLog>>

\* a batch collector that does not empty its batch after sending it
BatcherSendBatchNoReset ==
    /\ Len(batchChan) < BatchChanCap
    /\ batchChan' = Append(batchChan, batch)
    /\ batch' = batch
    /\ bpc' = IF bpc = "send" THEN "recv" ELSE "done"
    /\ batchClosed' = (bpc = "sendLast")
    /\ batchLog' = Append(batchLog, batch)

\* select { case batchChan <- toSend: case <-ctx.Done(): return }
BatcherSendBatch ==
    /\ Len(batchChan) < BatchChanCap
    /\ batchChan' = Append(batchChan, batch)
    /\ batch' = IF bpc = "send" THEN <<>> ELSE batch
    /\ bpc' = IF bpc = "send" THEN "recv" ELSE "done"
    /\ batchClosed' = (bpc = "sendLast")
    /\ batchLog' = Append(batchLog, batch)

BatcherSendCancelled ==
    /\ ctxDone
    /\ bpc' = "done"
    /\ batchClosed' = TRUE
    /\ UNCHANGED <<batch, batchChan, batchLog>>

BatcherSend ==
    /\ bpc \in {"send", "sendLast"}
    /\ BatcherSendBatch \/ BatcherSendCancelled
    /\ UNCHANGED <<ctxDone, embVars, restVars, cacheVars, storeVars, cmd, p2Vars,
                   streamVars, workerVars, runVars, p1Vars>>

\* An embed worker takes a batch from batchChan and checks ctx.Done().
EmbedWorkerRecv(w) ==
    /\ wpc[w] = "recv"
    /\ batchChan # <<>>
    /\ batchChan' = Tail(batchChan)
    /\ IF ctxDone
       THEN /\ wpc' = [wpc EXCEPT ![w] = "done"]
            /\ UNCHANGED <<wdocs, wi>>
       ELSE /\ wpc' = [wpc EXCEPT ![w] = "embed"]
            /\ wdocs' = [wdocs EXCEPT ![w] = Head(batchChan)]
            /\ wi' = [wi EXCEPT ![w] = 0]
    /\ UNCHANGED <<ctxDone, embVars, restVars, cacheVars, storeVars, cmd, p2Vars,
                   streamVars, batch, bpc, batchClosed, batchLog, runVars, p1Vars>>

\* batchChan is closed and empty: the worker's range loop ends.
EmbedWorkerDrained(w) ==
    /\ wpc[w] = "recv"
    /\ batchChan = <<>>
    /\ batchClosed
    /\ wpc' = [wpc EXCEPT ![w] = "done"]
    /\ UNCHANGED <<ctxDone, embVars, restVars, cacheVars, storeVars, cmd, p2Vars,
                   streamVars, batchVars, wdocs, wi, runVars, p1Vars>>

\* an embed worker of Run that counts only the failed sub-batch as errors
RunEmbedCallCountsSubBatch(w, ok) ==
    /\ cmd = "run"
    /\ wpc[w] = "embed"
    /\ ctxDone => ~ok
    /\ IF ok
       THEN /\ wi' = [wi EXCEPT ![w] = @ + EmbedBatchSize]
            /\ wpc' = [wpc EXCEPT ![w] =
                          IF wi[w] + EmbedBatchSize < Len(wdocs[w]) THEN "embed" ELSE "send"]
            /\ UNCHANGED <<wdocs, errorCount>>
       ELSE /\ errorCount' = errorCount + Min(EmbedBatchSize, Len(wdocs[w]) - wi[w])
            /\ wpc' = [wpc EXCEPT ![w] = "recv"]
            /\ wdocs' = [wdocs EXCEPT ![w] = <<>>]
            /\ wi' = [wi EXCEPT ![w] = 0]
    /\ UNCHANGED <<ctxDone, embVars, restVars, cacheVars, storeVars, cmd, p2Vars,
                   streamVars, batchVars,
                   rpc, rret, embeddedChan, embeddedClosed, ipc, iupd, mongoUpdateChan,
                   updClosed, mpc, successCount, p1Vars>>

\* Run: one GetEmbeddings call for the sub-batch at wi.  The call fails when
\* the context is cancelled (see the embedding client above).
RunEmbedCall(w, ok) ==
    /\ cmd = "run"
    /\ wpc[w] = "embed"
    /\ ctxDone => ~ok
    /\ IF ok
       THEN /\ wi' = [wi EXCEPT ![w] = @ + EmbedBatchSize]
            /\ wpc' = [wpc EXCEPT ![w] =
                          IF wi[w] + EmbedBatchSize < Len(wdocs[w]) THEN "embed" ELSE "send"]
            /\ UNCHANGED <<wdocs, errorCount>>
       ELSE /\ errorCount' = errorCount + Len(wdocs[w])
            /\ wpc' = [wpc EXCEPT ![w] = "recv"]
            /\ wdocs' = [wdocs EXCEPT ![w] = <<>>]
            /\ wi' = [wi EXCEPT ![w] = 0]
    /\ UNCHANGED <<ctxDone, embVars, restVars, cacheVars, storeVars, cmd, p2Vars,
                   streamVars, batchVars,
                   rpc, rret, embeddedChan, embeddedClosed, ipc, iupd, mongoUpdateChan,
                   updClosed, mpc, successCount, p1Vars>>

\* select { case embeddedChan <- embeddedBatch{...}: case <-ctx.Done(): return }
RunEmbedSendBatch(w) ==
    /\ Len(embeddedChan) < EmbeddedChanCap
    /\ embeddedChan' = Append(embeddedChan, wdocs[w])
    /\ wpc' = [wpc EXCEPT ![w] = "recv"]
    /\ wdocs' = [wdocs EXCEPT ![w] = <<>>]
    /\ wi' = [wi EXCEPT ![w] = 0]

RunEmbedSendCancelled(w) ==
    /\ ctxDone
    /\ wpc' = [wpc EXCEPT ![w] = "done"]
    /\ wdocs' = [wdocs EXCEPT ![w] = <<>>]
    /\ wi' = [wi EXCEPT ![w] = 0]
    /\ UNCHANGED embeddedChan

RunEmbedSend(w) ==
    /\ cmd = "run"
    /\ wpc[w] = "send"
    /\ RunEmbedSendBatch(w) \/ RunEmbedSendCancelled(w)
    /\ UNCHANGED <<ctxDone, embVars, restVars, cacheVars, storeVars, cmd, p2Vars,
                   streamVars, batchVars,
                   rpc, rret, embeddedClosed, ipc, iupd, mongoUpdateChan,
                   updClosed, mpc, successCount, errorCount, p1Vars>>

\* go func() { embedWg.Wait(); close(embeddedChan) }()
CloseEmbeddedChan ==
    /\ cmd = "run"
    /\ rpc # "idle"
    /\ ~embeddedClosed
    /\ \A w \in Workers : wpc[w] = "done"
    /\ embeddedClosed' = TRUE
    /\ UNCHANGED <<ctxDone, embVars, restVars, cacheVars, storeVars, cmd, p2Vars,
                   streamVars, batchVars, workerVars,
                   rpc, rret, embeddedChan, ipc, iupd, mongoUpdateChan,
                   updClosed, mpc, successCount, errorCount, p1Vars>>

\* An index worker takes an embedded batch, checks ctx.Done(), bulk-indexes
\* it and builds the updates of the accepted documents.
RunIndexBatch(w, acc, err) ==
    /\ cmd = "run"
    /\ ipc[w] = "recv"
    /\ embeddedChan # <<>>
    /\ embeddedChan' = Tail(embeddedChan)
    /\ LET docs == Head(embeddedChan)
           items == BulkResponse(docs, acc)
           idMap == IdMap(docs, items)
           updates == CollectUpdates(docs, idMap)
       IN  IF ctxDone
           THEN /\ ipc' = [ipc EXCEPT ![w] = "done"]
                /\ UNCHANGED <<iupd, successCount, errorCount, engine, nextOsId>>
           ELSE /\ acc \subseteq 1..Len(docs)
                /\ err => acc = {}
                /\ nextOsId + Cardinality(acc) <= MaxOsIds + 1
                /\ EngineIndex(docs, items)
                /\ IF err
                   THEN /\ errorCount' = errorCount + Len(docs)
                        /\ UNCHANGED <<successCount, ipc, iupd>>
                   ELSE /\ successCount' = successCount + Cardinality(DOMAIN idMap)
                        /\ errorCount' = errorCount + (Len(docs) - Cardinality(DOMAIN idMap))
                        /\ IF updates # <<>>
                           THEN /\ ipc' = [ipc EXCEPT ![w] = "send"]
                                /\ iupd' = [iupd EXCEPT ![w] = updates]
                           ELSE UNCHANGED <<ipc, iupd>>
    /\ UNCHANGED <<ctxDone, embVars, restVars, cacheVars, openSearchId, indexExists, collection, cmd, p2Vars,
                   streamVars, batchVars, workerVars,
                   rpc, rret, embeddedClosed, mongoUpdateChan, updClosed, mpc, p1Vars>>

\* embeddedChan is closed and empty: the index worker's range loop ends.
IndexWorkerDrained(w) ==
    /\ cmd = "run"
    /\ ipc[w] = "recv"
    /\ embeddedChan = <<>>
    /\ embeddedClosed
    /\ ipc' = [ipc EXCEPT ![w] = "done"]
    /\ UNCHANGED <<ctxDone, embVars, restVars, cacheVars, storeVars, cmd, p2Vars,
                   streamVars, batchVars, workerVars,
                   rpc, rret, embeddedChan, embeddedClosed, iupd, mongoUpdateChan,
                   updClosed, mpc, successCount, errorCount, p1Vars>>

\* select { case mongoUpdateChan <- mongoUpdate{updates}: case <-ctx.Done(): return }
RunIndexSendUpdates(w) ==
    /\ Len(mongoUpdateChan) < MongoUpdateChanCap
    /\ mongoUpdateChan' = Append(mongoUpdateChan, iupd[w])
    /\ ipc' = [ipc EXCEPT ![w] = "recv"]
    /\ iupd' = [iupd EXCEPT ![w] = <<>>]

RunIndexSendCancelled(w) ==
    /\ ctxDone
    /\ ipc' = [ipc EXCEPT ![w] = "done"]
    /\ iupd' = [iupd EXCEPT ![w] = <<>>]
    /\ UNCHANGED mongoUpdateChan

RunIndexSend(w) ==
    /\ cmd = "run"
    /\ ipc[w] = "send"
    /\ RunIndexSendUpdates(w) \/ RunIndexSendCancelled(w)
    /\ UNCHANGED <<ctxDone, embVars, restVars, cacheVars, storeVars, cmd, p2Vars,
                   streamVars, batchVars, workerVars,
                   rpc, rret, embeddedChan, embeddedClosed, updClosed, mpc,
                   successCount, errorCount, p1Vars>>

\* The one MongoDB update worker: a bulk update per list taken from the
\* channel; an error is only logged.
RunSyncUpdates(applied, err) ==
    /\ cmd = "run"
    /\ mpc = "recv"
    /\ mongoUpdateChan # <<>>
    /\ mongoUpdateChan' = Tail(mongoUpdateChan)
    /\ applied \subseteq 1..Len(Head(mongoUpdateChan))
    /\ BulkUpdateOpenSearchIDs(Head(mongoUpdateChan), applied, err)
    /\ UNCHANGED <<ctxDone, embVars, restVars, cacheVars, engine, nextOsId, indexExists, collection, cmd, p2Vars,
                   streamVars, batchVars, workerVars,
                   rpc, rret, embeddedChan, embeddedClosed, ipc, iupd, updClosed, mpc,
                   successCount, errorCount, p1Vars>>

SyncWorkerDrained ==
    /\ cmd = "run"
    /\ mpc = "recv"
    /\ mongoUpdateChan = <<>>
    /\ updClosed
    /\ mpc' = "done"
    /\ UNCHANGED <<ctxDone, embVars, restVars, cacheVars, storeVars, cmd, p2Vars,
                   streamVars, batchVars, workerVars,
                   rpc, rret, embeddedChan, embeddedClosed, ipc, iupd, mongoUpdateChan,
                   updClosed, successCount, errorCount, p1Vars>>

\* Run: count, stream, start the stages.
Run(limit, reindexAll, ok) ==
    /\ cmd = "none"
    /\ cmd' = "run"
    /\ ctxDone => ~ok
    /\ IF ~ok
       THEN /\ rpc' = "done"
            /\ rret' = "err"
            /\ UNCHANGED <<streamVars, batchVars, workerVars, ipc, mpc>>
       ELSE IF CountTotal(reindexAll, limit) = 0
       THEN /\ rpc' = "done"
            /\ rret' = "nil"
            /\ UNCHANGED <<streamVars, batchVars, workerVars, ipc, mpc>>
       ELSE /\ rpc' = "waitIndex"
            /\ rret' = "none"
            /\ cursor' = QueryResult(reindexAll, limit)
            /\ docChan' = <<>>
            /\ docClosed' = FALSE
            /\ streamed' = 0
            /\ spc' = "run"
            /\ batch' = <<>>
            /\ bpc' = "recv"
            /\ batchChan' = <<>>
            /\ batchClosed' = FALSE
            /\ batchLog' = <<>>
            /\ wpc' = [w \in Workers |-> "recv"]
            /\ UNCHANGED <<wdocs, wi>>
            /\ ipc' = [w \in Workers |-> "recv"]
            /\ mpc' = "recv"
    /\ p2prev' = NoPrev
    /\ UNCHANGED <<ctxDone, embVars, restVars, cacheVars, storeVars, p2Locals,
                   embeddedChan, embeddedClosed, iupd, mongoUpdateChan, updClosed,
                   successCount, errorCount, p1Vars>>

\* a Run that waits for the index workers but never closes mongoUpdateChan
RunWaitIndexNoClose ==
    /\ cmd = "run"
    /\ rpc = "waitIndex"
    /\ \A w \in Workers : ipc[w] = "done"
    /\ updClosed' = updClosed
    /\ rpc' = "waitMongo"
    /\ UNCHANGED <<ctxDone, embVars, restVars, cacheVars, storeVars, cmd, p2Vars,
                   streamVars, batchVars, workerVars,
                   rret, embeddedChan, embeddedClosed, ipc, iupd, mongoUpdateChan,
                   mpc, successCount, errorCount, p1Vars>>

\* indexWg.Wait(); close(mongoUpdateChan)
RunWaitIndex ==
    /\ cmd = "run"
    /\ rpc = "waitIndex"
    /\ \A w \in Workers : ipc[w] = "done"
    /\ updClosed' = TRUE
    /\ rpc' = "waitMongo"
    /\ UNCHANGED <<ctxDone, embVars, restVars, cacheVars, storeVars, cmd, p2Vars,
                   streamVars, batchVars, workerVars,
                   rret, embeddedChan, embeddedClosed, ipc, iupd, mongoUpdateChan,
                   mpc, successCount, errorCount, p1Vars>>

\* mongoWg.Wait(); return nil
RunWaitMongo ==
    /\ cmd = "run"
    /\ rpc = "waitMongo"
    /\ mpc = "done"
    /\ rpc' = "done"
    /\ rret' = "nil"
    /\ UNCHANGED <<ctxDone, embVars, restVars, cacheVars, storeVars, cmd, p2Vars,
                   streamVars, batchVars, workerVars,
                   embeddedChan, embeddedClosed, ipc, iupd, mongoUpdateChan,
                   updClosed, mpc, successCount, errorCount, p1Vars>>

(***************************************************************************)
(* Phase1FetchAndEmbed.  The streaming goroutine, the batch collector's    *)
(* sends and the workers' receives are the actions above; the rest follows.*)
(***************************************************************************)
Phase1Return(ret) ==
    /\ p1pc' = "done"
    /\ p1ret' = ret

\* a cache that reports no id as processed
IsProcessedNever(m) == FALSE

\* Cache.IsProcessed
IsProcessed(m) == m \in processedIDs

\* Step 1: load the cache; a failure is only warned about.
Phase1FetchAndEmbed ==
    /\ cmd = "none"
    /\ cmd' = "phase1"
    /\ Load
    /\ loaded' = LoadOutcome.ids
    /\ p1pc' = "count"
    /\ UNCHANGED <<p1ret, p1limit, p1reindexAll, cacheMu, svpc, tpc, processed, p1errors,
                   skipped, embedSent, embedOk, dropped, finalSave, autosaveErr, resumed>>
    /\ UNCHANGED <<ctxDone, embVars, restVars, metaFile, entriesFile, lastSaved, storeVars, p2Vars,
                   pipeVars>>

\* Step 2: count the documents; nothing remains when the cache already has
\* as many entries as there are documents to process.
Phase1Count(ok) ==
    /\ cmd = "phase1"
    /\ p1pc = "count"
    /\ IF ~ok
       THEN Phase1Return("err")
       ELSE IF CountTotal(p1reindexAll, p1limit) - Len(centries) <= 0
       THEN Phase1Return("nil")
       ELSE p1pc' = "stream" /\ UNCHANGED p1ret
    /\ UNCHANGED <<p1limit, p1reindexAll, cacheMu, svpc, tpc, processed, p1errors,
                   skipped, loaded, embedSent, embedOk, dropped, finalSave, autosaveErr, resumed>>
    /\ UNCHANGED <<ctxDone, embVars, restVars, cacheVars, storeVars, cmd, p2Vars, pipeVars>>

\* Steps 3 and 4: StreamDocuments, SetMetadata, then the batch collector, the
\* progress goroutine and the workers are started.
Phase1Stream(ok) ==
    /\ cmd = "phase1"
    /\ p1pc = "stream"
    /\ IF ~ok
       THEN /\ Phase1Return("err")
            /\ UNCHANGED <<cmeta, streamVars, batchVars, workerVars, tpc>>
       ELSE /\ p1pc' = "wait"
            /\ UNCHANGED p1ret
            /\ cmeta' = [TotalDocs |-> CountTotal(p1reindexAll, p1limit),
                         ReindexAll |-> p1reindexAll]
            /\ cursor' = QueryResult(p1reindexAll, p1limit)
            /\ docChan' = <<>>
            /\ docClosed' = FALSE
            /\ streamed' = 0
            /\ spc' = "run"
            /\ batch' = <<>>
            /\ bpc' = "recv"
            /\ batchChan' = <<>>
            /\ batchClosed' = FALSE
            /\ batchLog' = <<>>
            /\ wpc' = [w \in Workers |-> "recv"]
            /\ UNCHANGED <<wdocs, wi>>
            /\ tpc' = "run"
    /\ UNCHANGED <<p1limit, p1reindexAll, cacheMu, svpc, processed, p1errors,
                   skipped, loaded, embedSent, embedOk, dropped, finalSave, autosaveErr, resumed>>
    /\ UNCHANGED <<ctxDone, embVars, restVars, centries, processedIDs, metaFile, entriesFile, lastSaved,
                   storeVars, cmd, p2Vars, runVars>>

\* a batch collector that does not ask the cache and batches every document
P1BatcherRecvNoSkip ==
    /\ cmd = "phase1"
    /\ bpc = "recv"
    /\ docChan # <<>>
    /\ docChan' = Tail(docChan)
    /\ batch' = Append(batch, Head(docChan))
    /\ bpc' = IF Len(batch) + 1 >= MongoBatchSize THEN "send" ELSE "recv"
    /\ UNCHANGED skipped
    /\ UNCHANGED <<p1pc, p1ret, p1limit, p1reindexAll, cacheMu, svpc, tpc, processed, p1errors,
                   loaded, embedSent, embedOk, dropped, finalSave, autosaveErr, resumed>>
    /\ UNCHANGED <<ctxDone, embVars, restVars, cacheVars, storeVars, cmd, p2Vars,
                   cursor, docClosed, spc, streamed, batchChan, batchClosed, batchLog, workerVars, runVars>>

\* Phase 1's batch collector takes a document from docChan and drops it when
\* the cache has it.
P1BatcherRecv ==
    /\ cmd = "phase1"
    /\ bpc = "recv"
    /\ docChan # <<>>
    /\ docChan' = Tail(docChan)
    /\ IF IsProcessed(Head(docChan))
       THEN /\ skipped' = skipped + 1
            /\ UNCHANGED <<batch, bpc>>
       ELSE /\ batch' = Append(batch, Head(docChan))
            /\ bpc' = IF Len(batch) + 1 >= MongoBatchSize THEN "send" ELSE "recv"
            /\ UNCHANGED skipped
    /\ UNCHANGED <<p1pc, p1ret, p1limit, p1reindexAll, cacheMu, svpc, tpc, processed, p1errors,
                   loaded, embedSent, embedOk, dropped, finalSave, autosaveErr, resumed>>
    /\ UNCHANGED <<ctxDone, embVars, restVars, cacheVars, storeVars, cmd, p2Vars,
                   cursor, docClosed, spc, streamed, batchChan, batchClosed, batchLog, workerVars, runVars>>

\* the documents of the sub-batch at i
SubBatch(docs, i) ==
    {docs[k] : k \in (i + 1)..Min(i + EmbedBatchSize, Len(docs))}

\* An embed worker that, when a call fails, keeps the embeddings it already
\* has and writes cache entries for the documents of the earlier sub-batches.
P1EmbedCallKeepPartial(w, ok) ==
    /\ cmd = "phase1"
    /\ wpc[w] = "embed"
    /\ ctxDone => ~ok
    /\ embedSent' = embedSent \cup SubBatch(wdocs[w], wi[w])
    /\ IF ok
       THEN /\ wi' = [wi EXCEPT ![w] = @ + EmbedBatchSize]
            /\ wpc' = [wpc EXCEPT ![w] =
                          IF wi[w] + EmbedBatchSize < Len(wdocs[w]) THEN "embed" ELSE "lock"]
            /\ embedOk' = embedOk \cup SubBatch(wdocs[w], wi[w])
            /\ UNCHANGED <<wdocs, p1errors, dropped>>
       ELSE /\ p1errors' = p1errors + Len(wdocs[w])
            /\ dropped' = dropped \cup Range(wdocs[w])
            /\ UNCHANGED embedOk
            /\ wpc' = [wpc EXCEPT ![w] = "lock"]
            /\ wdocs' = [wdocs EXCEPT ![w] = SubSeq(@, 1, wi[w])]
            /\ wi' = [wi EXCEPT ![w] = 0]
    /\ UNCHANGED <<p1pc, p1ret, p1limit, p1reindexAll, cacheMu, svpc, tpc, processed, skipped,
                   loaded, finalSave, autosaveErr, resumed>>
    /\ UNCHANGED <<ctxDone, embVars, restVars, cacheVars, storeVars, cmd, p2Vars,
                   streamVars, batchVars, runVars>>

\* Phase 1: one GetEmbeddings call for the sub-batch at wi; a failure drops
\* the whole batch.
P1EmbedCall(w, ok) ==
    /\ cmd = "phase1"
    /\ wpc[w] = "embed"
    /\ ctxDone => ~ok
    /\ embedSent' = embedSent \cup SubBatch(wdocs[w], wi[w])
    /\ IF ok
       THEN /\ wi' = [wi EXCEPT ![w] = @ + EmbedBatchSize]
            /\ wpc' = [wpc EXCEPT ![w] =
                          IF wi[w] + EmbedBatchSize < Len(wdocs[w]) THEN "embed" ELSE "lock"]
            /\ embedOk' = embedOk \cup SubBatch(wdocs[w], wi[w])
            /\ UNCHANGED <<wdocs, p1errors, dropped>>
       ELSE /\ p1errors' = p1errors + Len(wdocs[w])
            /\ dropped' = dropped \cup Range(wdocs[w])
            /\ UNCHANGED embedOk
            /\ wpc' = [wpc EXCEPT ![w] = "recv"]
            /\ wdocs' = [wdocs EXCEPT ![w] = <<>>]
            /\ wi' = [wi EXCEPT ![w] = 0]
    /\ UNCHANGED <<p1pc, p1ret, p1limit, p1reindexAll, cacheMu, svpc, tpc, processed, skipped,
                   loaded, finalSave, autosaveErr, resumed>>
    /\ UNCHANGED <<ctxDone, embVars, restVars, cacheVars, storeVars, cmd, p2Vars,
                   streamVars, batchVars, runVars>>

\* A cache whose AddEntries loses the first entry of every call.
AddEntriesSkipFirst(entries) ==
    /\ centries' = centries \o (IF entries = <<>> THEN <<>> ELSE Tail(entries))
    /\ processedIDs' = processedIDs \cup Range(entries)

\* Cache.AddEntries
AddEntries(entries) ==
    /\ centries' = centries \o entries
    /\ processedIDs' = processedIDs \cup Range(entries)

\* What follows a worker's cache write: cacheMu.Unlock(), the counter.
WorkerUnlock(w) ==
    /\ cacheMu' = 0
    /\ processed' = processed + Len(wdocs[w])
    /\ wpc' = [wpc EXCEPT ![w] = "recv"]
    /\ wdocs' = [wdocs EXCEPT ![w] = <<>>]
    /\ wi' = [wi EXCEPT ![w] = 0]

\* a worker that adds its entries and autosaves without holding cacheMu
P1AddEntriesNoLock(w, due) ==
    /\ cmd = "phase1"
    /\ wpc[w] = "lock"
    /\ AddEntries(wdocs[w])
    /\ IF due
       THEN /\ cacheMu' = w
            /\ wpc' = [wpc EXCEPT ![w] = "save"]
            /\ svpc' = "start"
            /\ UNCHANGED <<processed, wdocs, wi>>
       ELSE /\ WorkerUnlock(w)
            /\ UNCHANGED svpc
    /\ UNCHANGED <<p1pc, p1ret, p1limit, p1reindexAll, tpc, p1errors, skipped,
                   loaded, embedSent, embedOk, dropped, finalSave, autosaveErr, resumed>>
    /\ UNCHANGED <<ctxDone, embVars, restVars, cmeta, metaFile, entriesFile, lastSaved, storeVars, cmd,
                   p2Vars, streamVars, batchVars, runVars>>

\* cacheMu.Lock(), AddEntries, and the test time.Since(lastSave) > 30s: when
\* the autosave is due the worker starts Save with cacheMu held.
P1AddEntries(w, due) ==
    /\ cmd = "phase1"
    /\ wpc[w] = "lock"
    /\ cacheMu = 0
    /\ AddEntries(wdocs[w])
    /\ IF due
       THEN /\ cacheMu' = w
            /\ wpc' = [wpc EXCEPT ![w] = "save"]
            /\ svpc' = "start"
            /\ UNCHANGED <<processed, wdocs, wi>>
       ELSE /\ WorkerUnlock(w)
            /\ UNCHANGED svpc
    /\ UNCHANGED <<p1pc, p1ret, p1limit, p1reindexAll, tpc, p1errors, skipped,
                   loaded, embedSent, embedOk, dropped, finalSave, autosaveErr, resumed>>
    /\ UNCHANGED <<ctxDone, embVars, restVars, cmeta, metaFile, entriesFile, lastSaved, storeVars, cmd,
                   p2Vars, streamVars, batchVars, runVars>>

\* Save returns: to the worker that autosaves, which ignores the error and
\* unlocks, or to step 5 of Phase 1, which returns with it.
SaveReturn(ok) ==
    /\ svpc' = "none"
    /\ IF p1pc = "save"
       THEN /\ finalSave' = IF ok THEN "ok" ELSE "err"
            /\ Phase1Return(IF ok THEN "nil" ELSE "err")
            /\ UNCHANGED <<cacheMu, processed, workerVars, autosaveErr>>
       ELSE /\ WorkerUnlock(cacheMu)
            /\ autosaveErr' = (autosaveErr \/ ~ok)
            /\ UNCHANGED <<finalSave, p1pc, p1ret>>

SaveContinue(next) ==
    /\ svpc' = next
    /\ UNCHANGED <<finalSave, autosaveErr, p1pc, p1ret, cacheMu, processed, workerVars>>

\* Save: os.Create(metadata.gob) truncates the file, or fails.
SaveCreateMetadata(ok) ==
    /\ cmd = "phase1"
    /\ svpc = "start"
    /\ IF ok
       THEN metaFile' = Partial /\ SaveContinue("meta")
       ELSE UNCHANGED metaFile /\ SaveReturn(FALSE)
    /\ UNCHANGED <<entriesFile, lastSaved>>
    /\ UNCHANGED <<p1limit, p1reindexAll, tpc, p1errors, skipped, loaded, embedSent, embedOk, dropped, resumed>>
    /\ UNCHANGED <<ctxDone, embVars, restVars, centries, processedIDs, cmeta, storeVars, cmd, p2Vars,
                   streamVars, batchVars, runVars>>

\* Save: Encode(c.metadata)
SaveEncodeMetadata ==
    /\ cmd = "phase1"
    /\ svpc = "meta"
    /\ metaFile' = [st |-> "ok", of |-> centries, meta |-> cmeta]
    /\ SaveContinue("create")
    /\ UNCHANGED <<entriesFile, lastSaved>>
    /\ UNCHANGED <<p1limit, p1reindexAll, tpc, p1errors, skipped, loaded, embedSent, embedOk, dropped, resumed>>
    /\ UNCHANGED <<ctxDone, embVars, restVars, centries, processedIDs, cmeta, storeVars, cmd, p2Vars,
                   streamVars, batchVars, runVars>>

\* Save: os.Create(embeddings.gob) truncates the file
SaveCreateCache ==
    /\ cmd = "phase1"
    /\ svpc = "create"
    /\ entriesFile' = Partial
    /\ SaveContinue("entries")
    /\ UNCHANGED <<metaFile, lastSaved>>
    /\ UNCHANGED <<p1limit, p1reindexAll, tpc, p1errors, skipped, loaded, embedSent, embedOk, dropped, resumed>>
    /\ UNCHANGED <<ctxDone, embVars, restVars, centries, processedIDs, cmeta, storeVars, cmd, p2Vars,
                   streamVars, batchVars, runVars>>

\* Save: Encode(c.entries), return nil
SaveEncodeCache ==
    /\ cmd = "phase1"
    /\ svpc = "entries"
    /\ entriesFile' = [st |-> "ok", entries |-> centries]
    /\ lastSaved' = centries
    /\ SaveReturn(TRUE)
    /\ UNCHANGED metaFile
    /\ UNCHANGED <<p1limit, p1reindexAll, tpc, p1errors, skipped, loaded, embedSent, embedOk, dropped, resumed>>
    /\ UNCHANGED <<ctxDone, embVars, restVars, centries, processedIDs, cmeta, storeVars, cmd, p2Vars,
                   streamVars, batchVars, runVars>>

\* wg.Wait(); cancelProgress(); step 5 calls Save
Phase1WaitDone ==
    /\ cmd = "phase1"
    /\ p1pc = "wait"
    /\ \A w \in Workers : wpc[w] = "done"
    /\ p1pc' = "save"
    /\ svpc' = "start"
    /\ UNCHANGED <<p1ret, p1limit, p1reindexAll, cacheMu, tpc, processed, p1errors, skipped,
                   loaded, embedSent, embedOk, dropped, finalSave, autosaveErr, resumed>>
    /\ UNCHANGED <<ctxDone, embVars, restVars, cacheVars, storeVars, cmd, p2Vars, pipeVars>>

\* The progress goroutine returns when progressCtx, a child of ctx, is done.
ProgressExit ==
    /\ cmd = "phase1"
    /\ tpc = "run"
    /\ ctxDone \/ p1pc \in {"save", "done"}
    /\ tpc' = "done"
    /\ UNCHANGED <<p1pc, p1ret, p1limit, p1reindexAll, cacheMu, svpc, processed, p1errors,
                   skipped, loaded, embedSent, embedOk, dropped, finalSave, autosaveErr, resumed>>
    /\ UNCHANGED <<ctxDone, embVars, restVars, cacheVars, storeVars, cmd, p2Vars, pipeVars>>

(***************************************************************************)
(* The end of a command.  Every command is a process of its own: its       *)
(* goroutines, its context and its in-memory cache end with it.            *)
(***************************************************************************)
ResetPhase2 ==
    /\ p2pc' = "idle"
    /\ p2entries' = <<>>
    /\ p2i' = 0
    /\ p2j' = 0
    /\ mongoUpdates' = <<>>
    /\ indexed' = 0
    /\ p2errors' = 0
    /\ p2ret' = "none"
    /\ p2accepted' = {}
    /\ p2failed' = {}
    /\ p2synced' = {}

ResetPhase1 ==
    /\ p1pc' = "idle"
    /\ p1ret' = "none"
    /\ cacheMu' = 0
    /\ svpc' = "none"
    /\ tpc' = "none"
    /\ processed' = 0
    /\ p1errors' = 0
    /\ skipped' = 0
    /\ loaded' = {}
    /\ embedSent' = {}
    /\ embedOk' = {}
    /\ dropped' = {}
    /\ finalSave' = "none"
    /\ autosaveErr' = FALSE
    /\ UNCHANGED <<p1limit, p1reindexAll>>

ResetPipeline ==
    /\ cursor' = <<>>
    /\ docChan' = <<>>
    /\ docClosed' = FALSE
    /\ streamed' = 0
    /\ spc' = "none"
    /\ batch' = <<>>
    /\ bpc' = "none"
    /\ batchChan' = <<>>
    /\ batchClosed' = FALSE
    /\ batchLog' = <<>>
    /\ wpc' = [w \in Workers |-> "none"]
    /\ wdocs' = [w \in Workers |-> <<>>]
    /\ wi' = [w \in Workers |-> 0]
    /\ rpc' = "idle"
    /\ rret' = "none"
    /\ embeddedChan' = <<>>
    /\ embeddedClosed' = FALSE
    /\ ipc' = [w \in Workers |-> "none"]
    /\ iupd' = [w \in Workers |-> <<>>]
    /\ mongoUpdateChan' = <<>>
    /\ updClosed' = FALSE
    /\ mpc' = "none"
    /\ successCount' = 0
    /\ errorCount' = 0

CommandExit ==
    /\ \/ cmd = "phase1" /\ p1pc = "done"
       \/ cmd = "phase2" /\ p2pc = "done"
       \/ cmd = "run" /\ rpc = "done"
    /\ cmd' = "none"
    /\ ctxDone' = FALSE
    /\ p2prev' = IF /\ cmd = "phase2" /\ p2ret = "nil" /\ p2entries # <<>>
                    /\ p2accepted = Range(p2entries)
                    /\ p2synced = Range(p2entries)
                 THEN [entries |-> p2entries, engine |-> engine, ids |-> openSearchId,
                       clean |-> TRUE]
                 ELSE NoPrev
    /\ ResetPhase1
    /\ resumed' = FALSE
    /\ ResetPhase2
    /\ ResetPipeline
    /\ centries' = <<>>
    /\ processedIDs' = {}
    /\ cmeta' = NoMeta
    /\ UNCHANGED <<embVars, restVars, metaFile, entriesFile, lastSaved, storeVars>>

\* The process is killed in the middle of Phase 1: what is in memory is gone,
\* the files stay as they are.
Crash ==
    /\ cmd = "phase1"
    /\ p1pc # "done"
    /\ cmd' = "none"
    /\ ctxDone' = FALSE
    /\ ResetPhase1
    /\ resumed' = TRUE
    /\ ResetPipeline
    /\ centries' = <<>>
    /\ processedIDs' = {}
    /\ cmeta' = NoMeta
    /\ UNCHANGED <<embVars, restVars, metaFile, entriesFile, lastSaved, storeVars, p2Vars>>

\* What a Phase 1 run does to the state of this specification: it appends
\* entries for selected documents that are not cached yet and saves the cache.
\* (The actions of Phase 1 itself are above; SpecP1 explores them.)
Phase1Effect(reindexAll, new) ==
    /\ cmd = "none"
    /\ ~ctxDone
    /\ metaFile.st = "ok"
    /\ entriesFile.st = "ok"
    /\ Cardinality(Selected(reindexAll)) > Len(entriesFile.entries)
    /\ new \in DistinctSeqs(Selected(reindexAll) \ Range(entriesFile.entries))
    /\ new # <<>>
    /\ lastSaved' = entriesFile.entries \o new
    /\ metaFile' = [st |-> "ok", of |-> entriesFile.entries \o new,
                    meta |-> [TotalDocs |-> Cardinality(Selected(reindexAll)),
                              ReindexAll |-> reindexAll]]
    /\ entriesFile' = [st |-> "ok", entries |-> entriesFile.entries \o new]
    /\ p2prev' = NoPrev
    /\ UNCHANGED <<ctxDone, embVars, restVars, centries, processedIDs, cmeta, storeVars, cmd,
                   p2Locals, pipeVars, p1Vars>>

(***************************************************************************)
(* The cache's methods called from concurrent goroutines.  Every method    *)
(* takes Cache.mu: AddEntry and AddEntries for writing, IsProcessed,       *)
(* GetEntries and Count for reading.                                       *)
(***************************************************************************)
CacheWriters == 1..NumCacheWriters

CacheReaders == (NumCacheWriters + 1)..(NumCacheWriters + NumCacheReaders)

CacheThreads == CacheWriters \cup CacheReaders

CacheIds == 1..NumCacheIds

NoResult == [found |-> "none", entries |-> <<>>, count |-> 0]

\* the variables the cache's methods leave alone
notCalls == <<ctxDone, embVars, cmeta, metaFile, entriesFile, lastSaved, storeVars, cmd,
              p1Vars, p2Vars, pipeVars, syncVars, reindexVars, searchVars, fnVars, gapVars>>

\* A goroutine calls a method: AddEntry(entry), AddEntries(entries),
\* IsProcessed(mongoID), GetEntries() or Count().
CacheCall(t, op, arg) ==
    /\ kpc[t] = "idle"
    /\ kcalls[t] < (IF t \in CacheWriters THEN MaxAddCalls ELSE MaxReadCalls)
    /\ \/ t \in CacheWriters /\ op = "AddEntry" /\ Len(arg) = 1
       \/ t \in CacheWriters /\ op = "AddEntries"
       \/ t \in CacheReaders /\ op = "IsProcessed" /\ Len(arg) = 1
       \/ t \in CacheReaders /\ op \in {"GetEntries", "Count"} /\ arg = <<>>
    /\ kop' = [kop EXCEPT ![t] = op]
    /\ karg' = [karg EXCEPT ![t] = arg]
    /\ ki' = [ki EXCEPT ![t] = 1]
    /\ kres' = [kres EXCEPT ![t] = NoResult]
    /\ kcalls' = [kcalls EXCEPT ![t] = @ + 1]
    /\ kbefore' = [kbefore EXCEPT ![t] = IF op = "IsProcessed" THEN known ELSE {}]
    /\ kpc' = [kpc EXCEPT ![t] = IF t \in CacheWriters THEN "lock" ELSE "rlock"]
    /\ UNCHANGED <<muW, muR, known, centries, processedIDs, notCalls>>

\* A read lock that does not wait for the writer.
CacheRLockNoWait(t) ==
    /\ kpc[t] = "rlock"
    /\ muR' = muR \cup {t}
    /\ kpc' = [kpc EXCEPT ![t] = "read"]
    /\ UNCHANGED <<muW, kop, karg, ki, kres, kcalls, known, kbefore,
                   centries, processedIDs, notCalls>>

\* c.mu.Lock()
CacheLock(t) ==
    /\ kpc[t] = "lock"
    /\ muW = 0
    /\ muR = {}
    /\ muW' = t
    /\ kpc' = [kpc EXCEPT ![t] =
                  IF kop[t] = "AddEntry" \/ karg[t] = <<>> THEN "append" ELSE "mark"]
    /\ UNCHANGED <<muR, kop, karg, ki, kres, kcalls, known, kbefore,
                   centries, processedIDs, notCalls>>

\* c.entries = append(c.entries, ...): the first write of AddEntry, the last
\* of AddEntries.
CacheAppend(t) ==
    /\ kpc[t] = "append"
    /\ centries' = centries \o karg[t]
    /\ kpc' = [kpc EXCEPT ![t] = IF kop[t] = "AddEntry" THEN "mark" ELSE "unlock"]
    /\ UNCHANGED <<muW, muR, kop, karg, ki, kres, kcalls, known, kbefore,
                   processedIDs, notCalls>>

\* c.processedIDs[id] = true: the second write of AddEntry, one iteration of
\* the loop of AddEntries.
CacheMark(t) ==
    /\ kpc[t] = "mark"
    /\ processedIDs' = processedIDs \cup {karg[t][ki[t]]}
    /\ ki' = [ki EXCEPT ![t] = @ + 1]
    /\ kpc' = [kpc EXCEPT ![t] =
                  IF kop[t] = "AddEntry" THEN "unlock"
                  ELSE IF ki[t] + 1 > Len(karg[t]) THEN "append" ELSE "mark"]
    /\ UNCHANGED <<muW, muR, kop, karg, kres, kcalls, known, kbefore, centries, notCalls>>

\* defer c.mu.Unlock(): the Add call returns.
CacheUnlock(t) ==
    /\ kpc[t] = "unlock"
    /\ muW' = 0
    /\ known' = known \cup Range(karg[t])
    /\ kpc' = [kpc EXCEPT ![t] = "idle"]
    /\ kop' = [kop EXCEPT ![t] = "none"]
    /\ karg' = [karg EXCEPT ![t] = <<>>]
    /\ ki' = [ki EXCEPT ![t] = 1]
    /\ UNCHANGED <<muR, kres, kcalls, kbefore, centries, processedIDs, notCalls>>

\* c.mu.RLock()
CacheRLock(t) ==
    /\ kpc[t] = "rlock"
    /\ muW = 0
    /\ muR' = muR \cup {t}
    /\ kpc' = [kpc EXCEPT ![t] = "read"]
    /\ UNCHANGED <<muW, kop, karg, ki, kres, kcalls, known, kbefore,
                   centries, processedIDs, notCalls>>

\* the body of IsProcessed, GetEntries (a copy of c.entries) or Count
CacheRead(t) ==
    /\ kpc[t] = "read"
    /\ kres' = [kres EXCEPT ![t] =
                  IF kop[t] = "IsProcessed"
                  THEN [NoResult EXCEPT !.found =
                            IF karg[t][1] \in processedIDs THEN "true" ELSE "false"]
                  ELSE IF kop[t] = "GetEntries"
                  THEN [NoResult EXCEPT !.entries = centries]
                  ELSE [NoResult EXCEPT !.count = Len(centries)]]
    /\ kpc' = [kpc EXCEPT ![t] = "runlock"]
    /\ UNCHANGED <<muW, muR, kop, karg, ki, kcalls, known, kbefore,
                   centries, processedIDs, notCalls>>

\* defer c.mu.RUnlock(): the read returns.
CacheRUnlock(t) ==
    /\ kpc[t] = "runlock"
    /\ muR' = muR \ {t}
    /\ known' = known \cup Range(kres[t].entries)
    /\ kres' = [kres EXCEPT ![t] = [@ EXCEPT !.entries = <<>>, !.count = 0]]
    /\ kop' = [kop EXCEPT ![t] = IF @ = "IsProcessed" THEN @ ELSE "none"]
    /\ kpc' = [kpc EXCEPT ![t] = "idle"]
    /\ UNCHANGED <<muW, karg, ki, kcalls, kbefore, centries, processedIDs, notCalls>>

ParkedCalls ==
    /\ muW = 0
    /\ muR = {}
    /\ kpc = [t \in CacheThreads |-> "idle"]
    /\ kop = [t \in CacheThreads |-> "none"]
    /\ karg = [t \in CacheThreads |-> <<>>]
    /\ ki = [t \in CacheThreads |-> 1]
    /\ kres = [t \in CacheThreads |-> NoResult]
    /\ kcalls = [t \in CacheThreads |-> 0]
    /\ known = {}
    /\ kbefore = [t \in CacheThreads |-> {}]

(***************************************************************************)
(* The back-sync calls, with BulkUpdateOpenSearchIDs as an interval: the   *)
(* loop of step 4 of Phase 2, which runs in the goroutine of Phase 2, and  *)
(* the MongoDB update workers of Run, fed by the index workers.            *)
(***************************************************************************)
\* as many MongoDB update workers as index workers
\* search: const bypassCache = true ("TEMPORARY: Bypass cache for debugging")
bypassCache == TRUE

mongoWorkersAsIndexWorkers == Max(2, NumWorkers)

\* mongoWorkers := 1 in Run
mongoWorkers == 1

\* 0 is the goroutine of Phase 2, the others are Run's update workers
SyncThreads == 0..mongoWorkers

\* the update list of one indexed batch
UpdateList(m) == <<[MongoID |-> m, OpenSearchID |-> m]>>

\* the variables the back-sync leaves alone
notSync == <<embVars, cacheVars, engine, nextOsId, indexExists, collection, p1Vars,
             p2entries, p2i, indexed, p2errors, p2accepted, p2failed, p2synced, p2prev,
             streamVars, batchVars, workerVars,
             rpc, rret, embeddedChan, embeddedClosed, ipc, iupd, mpc, successCount, errorCount,
             callVars, reindexVars, searchVars, fnVars, gapVars>>

\* Phase 2 reaches step 4 with the updates of n indexed entries collected.
SyncPhase2Step4(n) ==
    /\ cmd = "none"
    /\ cmd' = "phase2"
    /\ p2pc' = "sync"
    /\ mongoUpdates' = [k \in 1..n |-> UpdateList(k)[1]]
    /\ p2j' = 0
    /\ upc' = [upc EXCEPT ![0] = "recv"]
    /\ UNCHANGED <<ctxDone, openSearchId, p2ret, mongoUpdateChan, updClosed, uflight, unext, notSync>>

\* Phase 2: the head of the back-sync loop; the call is made for the batch
\* at p2j, or the loop is over and Phase 2 returns.
SyncPhase2Begin ==
    /\ cmd = "phase2"
    /\ upc[0] = "recv"
    /\ IF p2j < Len(mongoUpdates)
       THEN /\ uflight' = [uflight EXCEPT ![0] =
                   SubSeq(mongoUpdates, p2j + 1, Min(p2j + OpenSearchBulkSize, Len(mongoUpdates)))]
            /\ upc' = [upc EXCEPT ![0] = "update"]
            /\ UNCHANGED <<p2pc, p2ret>>
       ELSE /\ upc' = [upc EXCEPT ![0] = "done"]
            /\ Phase2Return("nil")
            /\ UNCHANGED uflight
    /\ UNCHANGED <<ctxDone, cmd, openSearchId, mongoUpdates, p2j, mongoUpdateChan, updClosed,
                   unext, notSync>>

\* Run starts its MongoDB update workers and its index workers.
SyncRunStart ==
    /\ cmd = "none"
    /\ cmd' = "run"
    /\ upc' = [t \in SyncThreads |-> IF t = 0 THEN "none" ELSE "recv"]
    /\ UNCHANGED <<ctxDone, openSearchId, p2pc, p2ret, mongoUpdates, p2j, mongoUpdateChan,
                   updClosed, uflight, unext, notSync>>

\* Run: an index worker queues the update list of the batch it has indexed.
SyncProduce(w) ==
    /\ cmd = "run"
    /\ ~updClosed
    /\ unext < NumDocs
    /\ Len(mongoUpdateChan) < MongoUpdateChanCap
    /\ mongoUpdateChan' = Append(mongoUpdateChan, UpdateList(unext + 1))
    /\ unext' = unext + 1
    /\ UNCHANGED <<ctxDone, cmd, openSearchId, p2pc, p2ret, mongoUpdates, p2j, updClosed,
                   upc, uflight, notSync>>

\* Run: indexWg.Wait() is over, close(mongoUpdateChan).
SyncClose ==
    /\ cmd = "run"
    /\ ~updClosed
    /\ updClosed' = TRUE
    /\ UNCHANGED <<ctxDone, cmd, openSearchId, p2pc, p2ret, mongoUpdates, p2j, mongoUpdateChan,
                   upc, uflight, unext, notSync>>

\* Run: an update worker takes a list from mongoUpdateChan and makes the call.
SyncRecv(t) ==
    /\ cmd = "run"
    /\ t # 0
    /\ upc[t] = "recv"
    /\ mongoUpdateChan # <<>>
    /\ mongoUpdateChan' = Tail(mongoUpdateChan)
    /\ uflight' = [uflight EXCEPT ![t] = Head(mongoUpdateChan)]
    /\ upc' = [upc EXCEPT ![t] = IF Len(Head(mongoUpdateChan)) > 0 THEN "update" ELSE "recv"]
    /\ UNCHANGED <<ctxDone, cmd, openSearchId, p2pc, p2ret, mongoUpdates, p2j, updClosed,
                   unext, notSync>>

\* Run: mongoUpdateChan is closed and empty, the worker's range loop ends.
SyncDrained(t) ==
    /\ cmd = "run"
    /\ t # 0
    /\ upc[t] = "recv"
    /\ mongoUpdateChan = <<>>
    /\ updClosed
    /\ upc' = [upc EXCEPT ![t] = "done"]
    /\ UNCHANGED <<ctxDone, cmd, openSearchId, p2pc, p2ret, mongoUpdates, p2j, mongoUpdateChan,
                   updClosed, uflight, unext, notSync>>

\* BulkUpdateOpenSearchIDs returns to the goroutine that called it.
SyncEnd(t, applied, err) ==
    /\ upc[t] = "update"
    /\ applied \subseteq 1..Len(uflight[t])
    /\ BulkUpdateOpenSearchIDs(uflight[t], applied, err)
    /\ uflight' = [uflight EXCEPT ![t] = <<>>]
    /\ upc' = [upc EXCEPT ![t] = "recv"]
    /\ p2j' = IF t = 0 THEN p2j + OpenSearchBulkSize ELSE p2j
    /\ UNCHANGED <<ctxDone, cmd, p2pc, p2ret, mongoUpdates, mongoUpdateChan, updClosed,
                   unext, notSync>>

ParkedSync ==
    /\ upc = [t \in SyncThreads |-> "none"]
    /\ uflight = [t \in SyncThreads |-> <<>>]
    /\ unext = 0

(***************************************************************************)
(* ReindexFull.  Its five steps are actions; the two phases it runs in     *)
(* step 5 (RunBothPhases) are a call and a return each, with what a phase  *)
(* leaves behind as the effect of the return (the phases themselves are    *)
(* the actions of Phase 1 and Phase 2 above).                              *)
(***************************************************************************)
\* the variables ReindexFull leaves alone
notReindex == <<ctxDone, embVars, lastSaved, collection, cmd, p1Vars, p2Vars, pipeVars,
                callVars, syncVars, searchVars, fnVars, gapVars>>

ReindexReturn(ret) ==
    /\ fpc' = "done"
    /\ fret' = ret

\* idx.ReindexFull(ctx) is called.
ReindexFull ==
    /\ fpc = "idle"
    /\ fpc' = "delete"
    /\ UNCHANGED <<flog, fret, ffailed, cacheVars, storeVars, notReindex>>

\* Step 1: DeleteIndex; a failure is only warned about.
ReindexDeleteIndex(ok) ==
    /\ fpc = "delete"
    /\ flog' = Append(flog, "delete")
    /\ IF ok
       THEN indexExists' = FALSE /\ engine' = {} /\ UNCHANGED ffailed
       ELSE ffailed' = "delete" /\ UNCHANGED <<indexExists, engine>>
    /\ fpc' = "create"
    /\ UNCHANGED <<fret, cacheVars, openSearchId, nextOsId, notReindex>>

\* Step 2: CreateIndex; a failure ends ReindexFull.
ReindexCreateIndex(ok) ==
    /\ fpc = "create"
    /\ flog' = Append(flog, "create")
    /\ CreateIndex(ok)
    /\ IF CreateIndexReturn(indexExists, ok) = "nil"
       THEN fpc' = "clearIds" /\ UNCHANGED <<fret, ffailed>>
       ELSE ReindexReturn("err") /\ ffailed' = "create"
    /\ UNCHANGED <<cacheVars, openSearchId, engine, nextOsId, notReindex>>

\* A step 3 whose failure is only warned about.
ReindexClearMongoIDsLenient(cleared, ok) ==
    /\ fpc = "clearIds"
    /\ flog' = Append(flog, "clearIds")
    /\ ok => cleared = MongoIds
    /\ openSearchId' = [m \in MongoIds |-> IF m \in cleared THEN 0 ELSE openSearchId[m]]
    /\ fpc' = "clearCache"
    /\ ffailed' = IF ok THEN ffailed ELSE "clearIds"
    /\ UNCHANGED <<fret, cacheVars, engine, nextOsId, indexExists, notReindex>>

\* Step 3: ClearMongoIDs; a failure ends ReindexFull.  The ids in `cleared`
\* are the ones the store has reset: all of them when the call succeeds.
ReindexClearMongoIDs(cleared, ok) ==
    /\ fpc = "clearIds"
    /\ flog' = Append(flog, "clearIds")
    /\ ok => cleared = MongoIds
    /\ openSearchId' = [m \in MongoIds |-> IF m \in cleared THEN 0 ELSE openSearchId[m]]
    /\ IF ok
       THEN fpc' = "clearCache" /\ UNCHANGED <<fret, ffailed>>
       ELSE ReindexReturn("err") /\ ffailed' = "clearIds"
    /\ UNCHANGED <<cacheVars, engine, nextOsId, indexExists, notReindex>>

\* Step 4: idx.cache.Clear().  The results of the two os.Remove are ignored:
\* a file that cannot be removed stays.
ReindexClearCache(rmCache, rmMeta) ==
    /\ fpc = "clearCache"
    /\ flog' = Append(flog, "clearCache")
    /\ centries' = <<>>
    /\ processedIDs' = {}
    /\ cmeta' = NoMeta
    /\ entriesFile' = IF rmCache THEN Absent ELSE entriesFile
    /\ metaFile' = IF rmMeta THEN Absent ELSE metaFile
    /\ fpc' = "phase1"
    /\ UNCHANGED <<fret, ffailed, storeVars, notReindex>>

\* Step 5, RunBothPhases: Phase1FetchAndEmbed(ctx, 0, true) is called.
ReindexPhase1Call ==
    /\ fpc = "phase1"
    /\ flog' = Append(flog, "phase1")
    /\ fpc' = "inPhase1"
    /\ UNCHANGED <<fret, ffailed, cacheVars, storeVars, notReindex>>

\* Phase 1 returns: the cache it loaded, with the entries of the documents
\* in `new` added, has been saved; an error ends RunBothPhases.
ReindexPhase1Return(new, ok) ==
    /\ fpc = "inPhase1"
    /\ new \in DistinctSeqs(collection \ LoadOutcome.ids)
    /\ LET all == LoadOutcome.entries \o new
       IN  /\ centries' = all
           /\ processedIDs' = Range(all)
           /\ cmeta' = [TotalDocs |-> Cardinality(collection), ReindexAll |-> TRUE]
           /\ metaFile' = [st |-> "ok", of |-> all, meta |-> cmeta']
           /\ entriesFile' = [st |-> "ok", entries |-> all]
    /\ IF ok
       THEN fpc' = "phase2" /\ UNCHANGED <<fret, ffailed>>
       ELSE ReindexReturn("err") /\ ffailed' = "phase1"
    /\ UNCHANGED <<flog, storeVars, notReindex>>

\* Phase2IndexAndUpdate(ctx) is called.
ReindexPhase2Call ==
    /\ fpc = "phase2"
    /\ flog' = Append(flog, "phase2")
    /\ fpc' = "inPhase2"
    /\ UNCHANGED <<fret, ffailed, cacheVars, storeVars, notReindex>>

\* Phase 2 returns: the entries with index in `acc` have a new engine
\* document and their cross-reference id.
ReindexPhase2Return(acc, ok) ==
    /\ fpc = "inPhase2"
    /\ acc \subseteq 1..Len(centries)
    /\ nextOsId + Cardinality(acc) <= MaxOsIds + 1
    /\ LET items == BulkResponse(centries, acc)
           updates == CollectUpdates(centries, IdMap(centries, items))
       IN  /\ EngineIndex(centries, items)
           /\ openSearchId' = ApplyUpdates(updates, 1..Len(updates))
    /\ ReindexReturn(IF ok THEN "nil" ELSE "err")
    /\ ffailed' = IF ok THEN ffailed ELSE "phase2"
    /\ UNCHANGED <<flog, cacheVars, indexExists, notReindex>>

ParkedReindex ==
    /\ fpc = "idle"
    /\ flog = <<>>
    /\ fret = "none"
    /\ ffailed = "none"

(***************************************************************************)
(* The search service (SearchService.search).  A request is one call of    *)
(* search; it gives up the event loop at every await, so the steps of      *)
(* several requests interleave.  sort, page, per_page and search_in keep   *)
(* their defaults.                                                         *)
(***************************************************************************)
SearchSlots == 1..NumSearchSlots

Queries == {"q1"}

\* a filters object is the sequence of its <<field, value>> entries, in the
\* order in which the request lists them (the order Object.entries yields);
\* null and undefined are the values "null" and "undefined"; the request
\* may also carry no filters at all
NoFilters == [defined |-> FALSE, entries |-> <<>>]

FilterObjects ==
    {NoFilters} \cup
    {[defined |-> TRUE, entries |-> e] :
        e \in {<<>>, <<(<<"year_from", "">>)>>, <<(<<"year_from", "2020">>)>>}}

\* search_in is absent (null) or a list of logical fields
NoSearchIn == [given |-> FALSE, list |-> <<>>]

SearchRequests == [query : Queries, filters : FilterObjects, search_in : {NoSearchIn}]

\* _getCacheKey: the entries whose value is undefined, null or '' are
\* dropped, absent filters count as {}; JSON.stringify keeps the entries in
\* their order; an absent search_in becomes 'default'.  The key is a hash of
\* the payload, taken to be free of collisions.
getCacheKey(req) ==
    LET Kept(e) == e[2] \notin {"undefined", "null", ""}
        normalizedFilters ==
            IF req.filters.defined
            THEN SelectSeq(req.filters.entries, Kept)
            ELSE <<>>
        searchIn == IF req.search_in.given
                    THEN [type |-> "array", of |-> req.search_in.list]
                    ELSE [type |-> "string", of |-> <<"default">>]
    IN  [ns |-> "search", query |-> req.query, filters |-> normalizedFilters,
         sort |-> "relevance", page |-> 1, perPage |-> 20, searchIn |-> searchIn]

CacheKeys == {getCacheKey(req) : req \in SearchRequests}

\* ObjectId.toString(), and the cast Mongoose applies to the strings of $in
toString(oid) == [hex |-> oid]

CastObjectId(s) == s.hex

\* JSON.stringify of a response: an _id becomes its string
Stringify(resp) ==
    [results |-> [i \in DOMAIN resp.results |-> [_id |-> toString(resp.results[i]._id)]],
     total |-> resp.total]

NoCached == [results |-> <<>>, total |-> -1]

NoRequest == [query |-> "none", filters |-> NoFilters, search_in |-> NoSearchIn]

NoResponse == [status |-> 0]

\* the hit lists of the engine: up to MaxHits hits, each with the mongo_id
\* of a record; two engine documents may carry the same mongo_id
HitLists ==
    UNION {[1..n -> {[_source |-> [mongo_id |-> toString(m)]] : m \in MongoIds}] : n \in 0..MaxHits}

\* what docMap.get returns for a key the map does not have (no record has
\* the id 0)
undefined == [_id |-> 0]

\* docMap.get(id) on new Map(docs.map(d => [d._id.toString(), d])): of
\* several documents with the same key the last one stays
DocMapGet(docs, id) ==
    LET at == {i \in DOMAIN docs : toString(docs[i]._id) = id}
    IN  IF at = {} THEN undefined
        ELSE docs[CHOOSE i \in at : \A j \in at : j <= i]

\* a hydration that returns the documents as the store delivered them
hydrateInStoreOrder(osHits, docs) == docs

\* _hydrateFromMongoDB, after the find: mongoIds.map(id => docMap.get(id))
\* .filter(Boolean)
hydrateFromMongoDB(osHits, docs) ==
    LET mongoIds == [i \in DOMAIN osHits |-> osHits[i]._source.mongo_id]
        mapped == [i \in DOMAIN mongoIds |-> DocMapGet(docs, mongoIds[i])]
        keep == {i \in DOMAIN mapped : mapped[i] # undefined}
        F[i \in 0..Len(mapped)] ==
            IF i = 0 THEN <<>>
            ELSE IF i \in keep THEN Append(F[i - 1], mapped[i]) ELSE F[i - 1]
    IN  F[Len(mapped)]

\* the variables the search service leaves alone
notSearch == <<ctxDone, embVars, cacheVars, storeVars, cmd, p1Vars, p2Vars, pipeVars,
               callVars, syncVars, reindexVars, fnVars, gapVars>>

\* search returns or throws: its locals are gone
SearchLeave(r, res) ==
    /\ srpc' = [srpc EXCEPT ![r] = "done"]
    /\ sres' = [sres EXCEPT ![r] = res]
    /\ shits' = [shits EXCEPT ![r] = <<>>]
    /\ stotal' = [stotal EXCEPT ![r] = 0]
    /\ sfound' = [sfound EXCEPT ![r] = {}]
    /\ sresults' = [sresults EXCEPT ![r] = <<>>]

\* The errors a search can end with: what threw, the message, and
\* error.meta.statusCode (0 when the error has none).
\* embedQuery: a non-2xx answer and a timeout are rethrown with a message of
\* the service's own; a failed connection is the TypeError fetch rejects
\* with, a body without embeddings the error of response.json() or of
\* data.embeddings[0].
EmbedError(outcome) ==
    [origin |-> "embedding",
     message |-> CASE outcome = "status" -> "Embedding service error: 500"
                   [] outcome = "timeout" -> "Embedding service timeout"
                   [] outcome = "connection" -> "fetch failed"
                   [] OTHER -> "Cannot read properties of undefined",
     metaStatus |-> 0]

EmbedOutcomes == {"ok", "status", "timeout", "connection", "body"}

\* opensearch.search: a ResponseError carries the status of the engine's
\* answer in meta.statusCode; an error without an answer has none.
EngineError(outcome) ==
    [origin |-> "engine",
     message |-> IF outcome = "response" THEN "search_phase_execution_exception"
                 ELSE "connect ECONNREFUSED",
     metaStatus |-> IF outcome = "response" THEN 400 ELSE 0]

EngineOutcomes == {"ok", "response", "connection"}

StoreError == [origin |-> "store", message |-> "MongoNetworkError", metaStatus |-> 0]

\* error.message.includes('Embedding service')
IncludesEmbeddingService(message) ==
    message \in {"Embedding service error: 500", "Embedding service timeout"}

\* a controller that answers by where the error came from
controllerStatusByOrigin(error) ==
    CASE error.origin = "embedding" -> 503
      [] error.origin = "engine" -> 502
      [] OTHER -> 500

\* searchController.search, catch (error): the status of the reply
controllerStatus(error) ==
    IF IncludesEmbeddingService(error.message) THEN 503
    ELSE IF error.metaStatus # 0 THEN 502
    ELSE 500

SearchThrow(r, error) ==
    SearchLeave(r, [status |-> controllerStatus(error), origin |-> error.origin])

\* search goes on to the await `next`
SearchGoOn(r, next) ==
    /\ srpc' = [srpc EXCEPT ![r] = next]
    /\ UNCHANGED sres

\* search(req) is called: the cache key is computed.
Search(r, req) ==
    /\ srpc[r] \in {"idle", "done"}
    /\ scount < MaxSearches
    /\ scount' = scount + 1
    /\ sreq' = [sreq EXCEPT ![r] = req]
    /\ srpc' = [srpc EXCEPT ![r] = "cache"]
    /\ shad' = [shad EXCEPT ![r] = redis[getCacheKey(req)]]
    /\ scalls' = [scalls EXCEPT ![r] = {}]
    /\ sbm25' = [sbm25 EXCEPT ![r] = -1]
    /\ sres' = [sres EXCEPT ![r] = NoResponse]
    /\ UNCHANGED <<redis, shits, stotal, sfound, sresults, notSearch>>

\* "Check cache": redis.get is only called when the cache is not bypassed;
\* a failed read is a miss.
SearchCacheCheck(r, getOk) ==
    /\ srpc[r] = "cache"
    /\ LET cached == redis[getCacheKey(sreq[r])]
       IN  IF ~bypassCache /\ getOk /\ cached # NoCached
           THEN SearchLeave(r, [status |-> 200, results |-> cached.results,
                                total |-> cached.total, cacheHit |-> TRUE])
           ELSE SearchGoOn(r, "embed") /\ UNCHANGED <<shits, stotal, sfound, sresults>>
    /\ scalls' = [scalls EXCEPT ![r] =
           IF bypassCache THEN @
           ELSE @ \cup {"cacheGet"} \cup (IF getOk THEN {} ELSE {"cacheGetFailed"})]
    /\ UNCHANGED <<redis, sreq, shad, sbm25, scount, notSearch>>

\* embeddingService.embedQuery(query)
SearchEmbedQuery(r, outcome) ==
    /\ srpc[r] = "embed"
    /\ scalls' = [scalls EXCEPT ![r] = @ \cup {"embedding"}]
    /\ IF outcome = "ok"
       THEN SearchGoOn(r, "bm25") /\ UNCHANGED <<shits, stotal, sfound, sresults>>
       ELSE SearchThrow(r, EmbedError(outcome))
    /\ UNCHANGED <<redis, sreq, shad, sbm25, scount, notSearch>>

\* a pre-check that goes on to the main query whatever the count is
SearchBm25CheckOnly(r, matches, ok) ==
    /\ srpc[r] = "bm25"
    /\ scalls' = [scalls EXCEPT ![r] = @ \cup {"bm25Check"}]
    /\ IF ok = "ok"
       THEN /\ sbm25' = [sbm25 EXCEPT ![r] = matches]
            /\ SearchGoOn(r, "query")
            /\ UNCHANGED <<shits, stotal, sfound, sresults>>
       ELSE SearchThrow(r, EngineError(ok)) /\ UNCHANGED sbm25
    /\ UNCHANGED <<redis, sreq, shad, scount, notSearch>>

\* The BM25-only pre-check (size 0); with no match the empty response is
\* returned at once.
SearchBm25Check(r, matches, ok) ==
    /\ srpc[r] = "bm25"
    /\ scalls' = [scalls EXCEPT ![r] = @ \cup {"bm25Check"}]
    /\ IF ok # "ok"
       THEN SearchThrow(r, EngineError(ok)) /\ UNCHANGED sbm25
       ELSE /\ sbm25' = [sbm25 EXCEPT ![r] = matches]
            /\ IF matches = 0
               THEN SearchLeave(r, [status |-> 200, results |-> <<>>, total |-> 0,
                                    cacheHit |-> FALSE])
               ELSE SearchGoOn(r, "query") /\ UNCHANGED <<shits, stotal, sfound, sresults>>
    /\ UNCHANGED <<redis, sreq, shad, scount, notSearch>>

\* The main engine query: its hits, and the total the engine reports.
SearchQuery(r, hits, more, ok) ==
    /\ srpc[r] = "query"
    /\ scalls' = [scalls EXCEPT ![r] = @ \cup {"engineQuery"}]
    /\ IF ok = "ok"
       THEN /\ shits' = [shits EXCEPT ![r] = hits]
            /\ stotal' = [stotal EXCEPT ![r] = Len(hits) + more]
            /\ SearchGoOn(r, "hydrate")
            /\ UNCHANGED <<sfound, sresults>>
       ELSE SearchThrow(r, EngineError(ok))
    /\ UNCHANGED <<redis, sreq, shad, sbm25, scount, notSearch>>

\* _hydrateFromMongoDB(hits): no lookup for an empty hit list; otherwise
\* find({_id: {$in: mongoIds}}) delivers the records found, each once, in
\* an order of the store's choosing.
SearchHydrate(r, docs, ok) ==
    /\ srpc[r] = "hydrate"
    /\ IF Len(shits[r]) = 0
       THEN /\ docs = <<>>
            /\ ok
            /\ SearchGoOn(r, "respond")
            /\ UNCHANGED <<scalls, shits, stotal, sfound, sresults>>
       ELSE /\ scalls' = [scalls EXCEPT ![r] = @ \cup {"storeFind"}]
            /\ LET wanted == {CastObjectId(shits[r][i]._source.mongo_id) : i \in DOMAIN shits[r]}
               IN  /\ docs \in DistinctSeqs({[_id |-> m] : m \in wanted \cap collection})
                   /\ Len(docs) = Cardinality(wanted \cap collection)
            /\ IF ok
               THEN /\ sfound' = [sfound EXCEPT ![r] = {docs[i]._id : i \in DOMAIN docs}]
                    /\ sresults' = [sresults EXCEPT ![r] = hydrateFromMongoDB(shits[r], docs)]
                    /\ SearchGoOn(r, "respond")
                    /\ UNCHANGED <<shits, stotal>>
               ELSE SearchThrow(r, StoreError)
    /\ UNCHANGED <<redis, sreq, shad, sbm25, scount, notSearch>>

CacheError == [origin |-> "cache", message |-> "Connection is closed.", metaStatus |-> 0]

\* a response step in which a failed redis.setex is thrown on
SearchRespondStrict(r, facultyOk, setOk) ==
    /\ srpc[r] = "respond"
    /\ LET response == [results |-> sresults[r], total |-> stotal[r]]
       IN  IF Len(sresults[r]) > 0 /\ ~facultyOk
           THEN /\ SearchThrow(r, StoreError)
                /\ scalls' = [scalls EXCEPT ![r] = @ \cup {"storeFaculty"}]
                /\ UNCHANGED redis
           ELSE /\ scalls' = [scalls EXCEPT ![r] =
                       @ \cup {"cacheSet"} \cup (IF Len(sresults[r]) > 0 THEN {"storeFaculty"} ELSE {})
                         \cup (IF setOk THEN {} ELSE {"cacheSetFailed"})]
                /\ redis' = IF setOk
                            THEN [redis EXCEPT ![getCacheKey(sreq[r])] = Stringify(response)]
                            ELSE redis
                /\ IF setOk
                   THEN SearchLeave(r, [status |-> 200, results |-> response.results,
                                        total |-> response.total, cacheHit |-> FALSE])
                   ELSE SearchThrow(r, CacheError)
    /\ UNCHANGED <<sreq, shad, sbm25, scount, notSearch>>

\* _extractRelatedFaculty, the response, redis.setex (a failed write is
\* only warned about) and the return.
SearchRespond(r, facultyOk, setOk) ==
    /\ srpc[r] = "respond"
    /\ LET response == [results |-> sresults[r], total |-> stotal[r]]
       IN  IF Len(sresults[r]) > 0 /\ ~facultyOk
           THEN /\ SearchThrow(r, StoreError)
                /\ scalls' = [scalls EXCEPT ![r] = @ \cup {"storeFaculty"}]
                /\ UNCHANGED redis
           ELSE /\ scalls' = [scalls EXCEPT ![r] =
                       @ \cup {"cacheSet"} \cup (IF Len(sresults[r]) > 0 THEN {"storeFaculty"} ELSE {})
                         \cup (IF setOk THEN {} ELSE {"cacheSetFailed"})]
                /\ redis' = IF setOk
                            THEN [redis EXCEPT ![getCacheKey(sreq[r])] = Stringify(response)]
                            ELSE redis
                /\ SearchLeave(r, [status |-> 200, results |-> response.results,
                                   total |-> response.total, cacheHit |-> FALSE])
    /\ UNCHANGED <<sreq, shad, sbm25, scount, notSearch>>

\* The TTL of an entry of the result cache runs out.
RedisExpire(k) ==
    /\ redis[k] # NoCached
    /\ redis' = [redis EXCEPT ![k] = NoCached]
    /\ UNCHANGED <<srpc, sreq, shad, scalls, sbm25, shits, stotal, sfound, sresults, sres,
                   scount, notSearch>>

ParkedSearch ==
    /\ redis = [k \in CacheKeys |-> NoCached]
    /\ srpc = [r \in SearchSlots |-> "idle"]
    /\ sreq = [r \in SearchSlots |-> NoRequest]
    /\ shad = [r \in SearchSlots |-> NoCached]
    /\ scalls = [r \in SearchSlots |-> {}]
    /\ sbm25 = [r \in SearchSlots |-> -1]
    /\ shits = [r \in SearchSlots |-> <<>>]
    /\ stotal = [r \in SearchSlots |-> 0]
    /\ sfound = [r \in SearchSlots |-> {}]
    /\ sresults = [r \in SearchSlots |-> <<>>]
    /\ sres = [r \in SearchSlots |-> NoResponse]
    /\ scount = 0

(***************************************************************************)
(* Calls of pure functions: the arguments are there from the start, the    *)
(* call computes the result.                                               *)
(***************************************************************************)
\* the variables a call of a pure function leaves alone
notFn == <<ctxDone, embVars, cacheVars, storeVars, cmd, p1Vars, p2Vars, pipeVars,
           callVars, syncVars, reindexVars, searchVars, gapVars>>

\* the requests whose keys are compared: up to two filters in either
\* order, with and without empty values; search_in absent, empty or given
KeyFilterEntries ==
    {<<f, v>> : f \in {"year_from", "document_type"}, v \in {"", "null", "2020"}}

KeyFilterObjects ==
    {NoFilters} \cup
    {[defined |-> TRUE, entries |-> e] :
        e \in {q \in DistinctSeqs(KeyFilterEntries) :
                  Len(q) <= 2 /\ \A i, j \in DOMAIN q : q[i][1] = q[j][1] => i = j}}

KeySearchIns ==
    {NoSearchIn} \cup {[given |-> TRUE, list |-> l] : l \in {<<>>, <<"title">>}}

KeyRequests == [query : Queries, filters : KeyFilterObjects, search_in : KeySearchIns]

\* _getCacheKey is called for each of two requests.
CallGetCacheKey ==
    /\ fnName = "none"
    /\ fnName' = "_getCacheKey"
    /\ fnResult' = <<getCacheKey(fnArgs[1]), getCacheKey(fnArgs[2])>>
    /\ UNCHANGED <<fnArgs, notFn>>

(***************************************************************************)
(* The normalized hybrid query.  Scores are in thousandths: a normalized   *)
(* BM25 score is 0..999 (_score / (1 + _score) is below 1), a normalized   *)
(* k-NN score 0..1000; the weights are in thousandths too, so that a fused *)
(* score is in millionths.                                                 *)
(***************************************************************************)
\* searchConfig.hybridWeights
bm25Weight == 400

vectorWeight == 600

\* searchConfig.minScore.normalized (0.3)
minScoreNormalized == 300

\* search: const dynamicMinScore = 1.0
dynamicMinScore == 1000

\* the script of the script_score query
FusedScore(doc) == bm25Weight * doc.bm25 + vectorWeight * doc.knn

\* _buildNormalizedHybridQuery, as far as the gate is concerned
buildNormalizedHybridQuery == [min_score |-> minScoreNormalized, script |-> "normalized"]

\* a search that executes the query as the builder made it
executedQueryAsBuilt(osQuery) == osQuery

\* search: osQuery.min_score = dynamicMinScore, for every sort
executedQuery(osQuery) == [osQuery EXCEPT !.min_score = dynamicMinScore]

\* the engine: the documents whose score is not below min_score, by
\* descending score (documents with equal scores in index order)
EngineHits(osQuery, docs) ==
    LET pass == {i \in DOMAIN docs : FusedScore(docs[i]) >= osQuery.min_score * 1000}
        Before(i, j) == \/ FusedScore(docs[i]) > FusedScore(docs[j])
                        \/ FusedScore(docs[i]) = FusedScore(docs[j]) /\ i < j
    IN  [k \in 1..Cardinality(pass) |->
            docs[CHOOSE i \in pass : Cardinality({j \in pass : Before(j, i)}) = k - 1]]

\* the documents that match the query: normalized scores from a grid that
\* holds the fused scores 0.72 (0.9, 0.6) and 0.41 (0.5, 0.35)
ScoredDocs == [bm25 : {0, 500, 900, 999}, knn : {0, 350, 600, 1000}]

\* search with sort = 'normalized' runs its main query on the index `docs`.
CallNormalizedSearch ==
    /\ fnName = "none"
    /\ fnName' = "search:normalized"
    /\ fnResult' = EngineHits(executedQuery(buildNormalizedHybridQuery), fnArgs)
    /\ UNCHANGED <<fnArgs, notFn>>

(***************************************************************************)
(* The author filters of _buildFilters and what the engine makes of them.  *)
(* A filter the request does not give is "none".                           *)
(***************************************************************************)
AuthorIds == {"A", "B"}

Affiliations == {"X", "Y"}

AuthorFilters ==
    [author_id : AuthorIds \cup {"none"}, affiliation : Affiliations \cup {"none"},
     first_author_only : BOOLEAN]

\* the authors array of an engine document
AuthorLists ==
    UNION {[1..n -> [author_id : AuthorIds, author_affiliation : Affiliations,
                     author_position : 1..MaxAuthors]] : n \in 0..MaxAuthors}

\* one nested clause with all the conditions on the same element
buildFiltersOneNested(filters) ==
    IF filters.author_id = "none" /\ filters.affiliation = "none" /\ ~filters.first_author_only
    THEN <<>>
    ELSE <<[nested |-> "authors",
            conds |-> (IF filters.author_id # "none"
                       THEN {<<"author_id", filters.author_id>>} ELSE {})
                      \cup (IF filters.affiliation # "none"
                            THEN {<<"author_affiliation", filters.affiliation>>} ELSE {})
                      \cup (IF filters.first_author_only
                            THEN {<<"author_position", "1">>} ELSE {})]>>

\* _buildFilters, the author filters: one nested clause for each filter
\* that is given
buildFilters(filters) ==
    (IF filters.author_id # "none"
     THEN <<[nested |-> "authors", conds |-> {<<"author_id", filters.author_id>>}]>>
     ELSE <<>>)
    \o (IF filters.affiliation # "none"
        THEN <<[nested |-> "authors", conds |-> {<<"author_affiliation", filters.affiliation>>}]>>
        ELSE <<>>)
    \o (IF filters.first_author_only
        THEN <<[nested |-> "authors", conds |-> {<<"author_position", "1">>}]>>
        ELSE <<>>)

\* the engine: an element satisfies a condition on one of its fields
ElementSatisfies(authors, i, cond) ==
    CASE cond[1] = "author_id" -> authors[i].author_id = cond[2]
      [] cond[1] = "author_affiliation" -> authors[i].author_affiliation = cond[2]
      [] OTHER -> authors[i].author_position = 1

\* the engine: a nested clause matches a document when one element of the
\* array satisfies the clause's query; the clauses of bool.filter must all
\* match
FilterMatches(clauses, authors) ==
    \A c \in DOMAIN clauses :
        \E i \in DOMAIN authors :
            \A cond \in clauses[c].conds : ElementSatisfies(authors, i, cond)

\* The filters of a request are compiled and a document is matched
\* against them.
CallBuildFilters ==
    /\ fnName = "none"
    /\ fnName' = "_buildFilters"
    /\ LET clauses == buildFilters(fnArgs.filters)
       IN  fnResult' = [clauses |-> clauses, matches |-> FilterMatches(clauses, fnArgs.authors)]
    /\ UNCHANGED <<fnArgs, notFn>>

(***************************************************************************)
(* The engine document the indexer builds from a record: by Phase 2 from a *)
(* cache entry, by Run from a streamed document.  Of the fields only the   *)
(* authors and the subject areas are kept.                                 *)
(***************************************************************************)
\* fmt.Sscanf(a.AuthorPosition, "%d", &position), position := 0 before it
ParsePosition(str) ==
    CASE str = "1" -> 1
      [] str = "2" -> 2
      [] OTHER -> 0

RecordAuthors ==
    UNION {[1..n -> [AuthorName : {"n1", "n2"}, AuthorPosition : {"", "1"}]] :
              n \in 0..MaxAuthors}

SubjectAreas == UNION {[1..n -> {"s1", "s2"}] : n \in 0..MaxSubjectAreas}

\* Phase2IndexAndUpdate: osDocs[j] = opensearch.OSDocument{...}
Phase2Document(entry) ==
    [authors |-> [k \in DOMAIN entry.Authors |->
                    [author_name |-> entry.Authors[k].AuthorName,
                     author_position |-> ParsePosition(entry.Authors[k].AuthorPosition)]],
     author_names |-> [k \in DOMAIN entry.Authors |-> entry.Authors[k].AuthorName],
     subject_area |-> entry.SubjectArea,
     subject_area_count |-> Len(entry.SubjectArea)]

\* Run, index worker: osDocs[i] = opensearch.OSDocument{...}; Authors and
\* SubjectAreaCount are not set and keep their zero values
RunDocument(doc) ==
    [authors |-> <<>>,
     author_names |-> [j \in DOMAIN doc.Authors |-> doc.Authors[j].AuthorName],
     subject_area |-> doc.SubjectArea,
     subject_area_count |-> 0]

\* Phase 2 builds the engine document of a cache entry.
CallPhase2Document ==
    /\ fnName = "none"
    /\ fnName' = "Phase2IndexAndUpdate"
    /\ fnResult' = Phase2Document(fnArgs)
    /\ UNCHANGED <<fnArgs, notFn>>

\* An index worker of Run builds the engine document of a streamed record.
CallRunDocument ==
    /\ fnName = "none"
    /\ fnName' = "Run"
    /\ fnResult' = RunDocument(fnArgs)
    /\ UNCHANGED <<fnArgs, notFn>>

(***************************************************************************)
(* Repeated calls of Client.CreateIndex; fnResult is the list of the       *)
(* calls made: whether the index existed, how the engine answered, whether *)
(* a create request was sent, and what was returned.                       *)
(***************************************************************************)
CallCreateIndex(how) ==
    /\ fnName \in {"none", "CreateIndex"}
    /\ Len(fnResult) < MaxCreateCalls
    /\ fnName' = "CreateIndex"
    /\ CreateIndex(how)
    /\ fnResult' = Append(fnResult,
           [existed |-> indexExists, check |-> how[1],
            sent |-> CreateIndexSends(indexExists, how),
            ret |-> CreateIndexReturn(indexExists, how)])
    /\ UNCHANGED <<fnArgs, ctxDone, embVars, cacheVars, openSearchId, engine, nextOsId,
                   collection, cmd, p1Vars, p2Vars, pipeVars, callVars, syncVars,
                   reindexVars, searchVars, gapVars>>

EmbStart(cs, r) ==
    /\ semaphore = 0
    /\ ctxDone = FALSE
    /\ maxRetries = r
    /\ callers = cs
    /\ epc = [c \in Callers |-> "idle"]
    /\ attempt = [c \in Callers |-> 0]
    /\ lastErr = [c \in Callers |-> 0]
    /\ nreq = [c \in Callers |-> 0]
    /\ sleeps = [c \in Callers |-> <<>>]
    /\ eret = [c \in Callers |-> "none"]

\* The groups of variables a specification does not drive.
ParkedEmb == EmbStart({}, 1)

ParkedCache ==
    /\ NewCache
    /\ metaFile = Absent
    /\ entriesFile = Absent
    /\ lastSaved = <<>>

\* a collection of n records without cross-reference ids, and no index
NewStores(n) ==
    /\ openSearchId = [m \in MongoIds |-> 0]
    /\ engine = {}
    /\ nextOsId = 1
    /\ indexExists = FALSE
    /\ collection = 1..n

ParkedStores == NewStores(0)

ParkedPhase2 ==
    /\ cmd = "none"
    /\ p2pc = "idle"
    /\ p2entries = <<>>
    /\ p2i = 0
    /\ p2j = 0
    /\ mongoUpdates = <<>>
    /\ indexed = 0
    /\ p2errors = 0
    /\ p2ret = "none"
    /\ p2accepted = {}
    /\ p2failed = {}
    /\ p2synced = {}
    /\ p2prev = NoPrev

\* before Phase1FetchAndEmbed(ctx, limit, reindexAll) is called
Phase1Idle(limit, reindexAll) ==
    /\ p1pc = "idle"
    /\ p1ret = "none"
    /\ p1limit = limit
    /\ p1reindexAll = reindexAll
    /\ resumed = FALSE
    /\ cacheMu = 0
    /\ svpc = "none"
    /\ tpc = "none"
    /\ processed = 0
    /\ p1errors = 0
    /\ skipped = 0
    /\ loaded = {}
    /\ embedSent = {}
    /\ embedOk = {}
    /\ dropped = {}
    /\ finalSave = "none"
    /\ autosaveErr = FALSE

ParkedPhase1 == Phase1Idle(0, FALSE)

ParkedPipeline ==
    /\ cursor = <<>>
    /\ docChan = <<>>
    /\ docClosed = FALSE
    /\ streamed = 0
    /\ spc = "none"
    /\ batch = <<>>
    /\ bpc = "none"
    /\ batchChan = <<>>
    /\ batchClosed = FALSE
    /\ batchLog = <<>>
    /\ wpc = [w \in Workers |-> "none"]
    /\ wdocs = [w \in Workers |-> <<>>]
    /\ wi = [w \in Workers |-> 0]
    /\ rpc = "idle"
    /\ rret = "none"
    /\ embeddedChan = <<>>
    /\ embeddedClosed = FALSE
    /\ ipc = [w \in Workers |-> "none"]
    /\ iupd = [w \in Workers |-> <<>>]
    /\ mongoUpdateChan = <<>>
    /\ updClosed = FALSE
    /\ mpc = "none"
    /\ successCount = 0
    /\ errorCount = 0

ParkedFn ==
    /\ fnName = "none"
    /\ fnArgs = <<>>
    /\ fnResult = <<>>

\* the clock at 0; the zero time.Time of lastReq lies further back than any gap
ParkedGap ==
    /\ now = 0
    /\ lastReq = 0 - MinGapMs
    /\ reqDue = [c \in Callers |-> 0]
    /\ reqStarts = <<>>

ParkedRest == ParkedCalls /\ ParkedSync /\ ParkedReindex /\ ParkedSearch /\ ParkedFn /\ ParkedGap

EmbInit ==
    /\ \E r \in 1..SmallRetries : EmbStart(Callers, r)
    /\ ParkedCache /\ ParkedStores /\ ParkedPhase1 /\ ParkedPhase2 /\ ParkedPipeline /\ ParkedRest

RetryInit ==
    /\ \E r \in 1..MaxRetriesBound : EmbStart({1}, r)
    /\ ParkedCache /\ ParkedStores /\ ParkedPhase1 /\ ParkedPhase2 /\ ParkedPipeline /\ ParkedRest

\* the client without its clock
EmbNext ==
    \/ \E c \in Callers, n \in 0..1 : GetEmbeddings(c, n) /\ UNCHANGED gapVars
    \/ \E c \in Callers : Acquire(c) /\ UNCHANGED gapVars
    \/ \E c \in Callers : RateLimit(c) /\ UNCHANGED gapVars
    \/ \E c \in Callers, ok \in BOOLEAN : DoRequest(c, ok) /\ UNCHANGED gapVars
    \/ \E c \in Callers : Backoff(c) /\ UNCHANGED gapVars
    \/ \E c \in Callers : EmbedReturn(c) /\ UNCHANGED gapVars
    \/ CancelCtx

SpecEmb == EmbInit /\ [][EmbNext]_vars

SpecRetry == RetryInit /\ [][EmbNext]_vars

\* A complete cache on disk holding the entries q, written by one Save.
SavedCache(q) ==
    /\ metaFile = [st |-> "ok", of |-> q, meta |-> [TotalDocs |-> Len(q), ReindexAll |-> FALSE]]
    /\ entriesFile = [st |-> "ok", entries |-> q]
    /\ lastSaved = q

\* SpecIdx starts after a Phase 1 that cached some of the records, with an
\* empty engine and no cross-reference ids.
IdxInit ==
    /\ ParkedEmb
    /\ NewCache
    /\ \E q \in DistinctSeqs(1..NumIdxDocs) : SavedCache(q)
    /\ NewStores(NumIdxDocs)
    /\ ParkedPhase1
    /\ ParkedPhase2
    /\ ParkedPipeline /\ ParkedRest

IdxNext ==
    \/ \E createOk \in CreateOutcomes : Phase2IndexAndUpdate(createOk)
    \/ \E acc \in SUBSET (1..OpenSearchBulkSize), err \in BOOLEAN : Phase2IndexSlice(acc, err)
    \/ \E applied \in SUBSET (1..OpenSearchBulkSize), err \in BOOLEAN : Phase2SyncBatch(applied, err)
    \/ \E limit \in 0..1, reindexAll \in BOOLEAN, ok \in BOOLEAN : Run(limit, reindexAll, ok)
    \/ StreamDocuments
    \/ RunBatcherRecv
    \/ BatcherDrained
    \/ BatcherSend
    \/ \E w \in Workers : EmbedWorkerRecv(w)
    \/ \E w \in Workers : EmbedWorkerDrained(w)
    \/ \E w \in Workers, ok \in BOOLEAN : RunEmbedCall(w, ok)
    \/ \E w \in Workers : RunEmbedSend(w)
    \/ CloseEmbeddedChan
    \/ \E w \in Workers, acc \in SUBSET (1..MongoBatchSize), err \in BOOLEAN : RunIndexBatch(w, acc, err)
    \/ \E w \in Workers : IndexWorkerDrained(w)
    \/ \E w \in Workers : RunIndexSend(w)
    \/ \E applied \in SUBSET (1..MongoBatchSize), err \in BOOLEAN : RunSyncUpdates(applied, err)
    \/ SyncWorkerDrained
    \/ RunWaitIndex
    \/ RunWaitMongo
    \/ \E reindexAll \in BOOLEAN, new \in DistinctSeqs(MongoIds) : Phase1Effect(reindexAll, new)
    \/ CommandExit
    \/ CancelCtx

SpecIdx == IdxInit /\ [][IdxNext]_vars

\* The commands that work on the saved cache alone: Phase 2, again and again,
\* with Phase 1 runs that extend the cache in between.
Phase2Next ==
    \/ \E createOk \in CreateOutcomes : Phase2IndexAndUpdate(createOk)
    \/ \E acc \in SUBSET (1..OpenSearchBulkSize), err \in BOOLEAN : Phase2IndexSlice(acc, err)
    \/ \E applied \in SUBSET (1..OpenSearchBulkSize), err \in BOOLEAN : Phase2SyncBatch(applied, err)
    \/ \E reindexAll \in BOOLEAN, new \in DistinctSeqs(MongoIds) : Phase1Effect(reindexAll, new)
    \/ CommandExit
    \/ CancelCtx

SpecPhase2 == IdxInit /\ [][Phase2Next]_vars

\* SpecP1: Phase 1 runs, one after the other with the same flags, on a
\* collection of NumDocs records; a run may be cancelled or killed.
P1Init ==
    /\ ParkedEmb
    /\ ParkedCache
    /\ NewStores(NumDocs)
    /\ \E limit \in {0, NumDocs - 1}, reindexAll \in BOOLEAN : Phase1Idle(limit, reindexAll)
    /\ ParkedPhase2
    /\ ParkedPipeline /\ ParkedRest

Phase1Main ==
    \/ Phase1FetchAndEmbed
    \/ \E ok \in BOOLEAN : Phase1Count(ok)
    \/ \E ok \in BOOLEAN : Phase1Stream(ok)
    \/ Phase1WaitDone

Phase1Batcher ==
    \/ P1BatcherRecv
    \/ BatcherDrained
    \/ BatcherSend

Phase1Worker(w) ==
    \/ EmbedWorkerRecv(w)
    \/ EmbedWorkerDrained(w)
    \/ \E ok \in BOOLEAN : P1EmbedCall(w, ok)
    \/ \E due \in BOOLEAN : P1AddEntries(w, due)

Save ==
    \/ \E ok \in BOOLEAN : SaveCreateMetadata(ok)
    \/ SaveEncodeMetadata
    \/ SaveCreateCache
    \/ SaveEncodeCache

Phase1Cancel == cmd = "phase1" /\ p1pc # "done" /\ CancelCtx

Phase1Steps ==
    \/ Phase1Main
    \/ StreamDocuments
    \/ Phase1Batcher
    \/ \E w \in Workers : Phase1Worker(w)
    \/ Save
    \/ ProgressExit
    \/ Phase1Cancel

P1Next == Phase1Steps \/ CommandExit \/ Crash

SpecP1 == P1Init /\ [][P1Next]_vars

\* SpecP1Live: one Phase 1 run, on any cache an earlier run may have saved,
\* in a process that lives on after the run; with the scheduler's fairness:
\* a goroutine that can take a step takes one.
P1LiveInit ==
    /\ ParkedEmb
    /\ NewCache
    /\ \/ ParkedCache
       \/ \E q \in DistinctSeqs(1..NumDocs) : SavedCache(q)
    /\ NewStores(NumDocs)
    /\ \E limit \in {0, NumDocs - 1}, reindexAll \in BOOLEAN : Phase1Idle(limit, reindexAll)
    /\ ParkedPhase2
    /\ ParkedPipeline /\ ParkedRest

Phase1Fairness ==
    /\ WF_vars(Phase1Main)
    /\ WF_vars(StreamDocuments)
    /\ WF_vars(Phase1Batcher)
    /\ \A w \in Workers : WF_vars(Phase1Worker(w))
    /\ WF_vars(Save)
    /\ WF_vars(ProgressExit)

SpecP1Live == P1LiveInit /\ [][Phase1Steps]_vars /\ Phase1Fairness

(***************************************************************************)
(* Claims about Phase 2, Run and the two stores.                           *)
(***************************************************************************)
Phase2Returned == cmd = "phase2" /\ p2pc = "done"

\* every entry of this run's cache was accepted and its back-sync written
Phase2Clean ==
    /\ Phase2Returned
    /\ p2ret = "nil"
    /\ p2accepted = Range(p2entries)
    /\ p2synced = Range(p2entries)

\* the record m's cross-reference id names an engine document that stores m
Resolves(m) ==
    \E d \in engine : d.id = openSearchId[m] /\ d.mongo_id = m

\* C1: when Phase 2 has run twice in a row on the same unchanged cache, both
\* times without any failure, the engine holds after the second run the same
\* documents as after the first, and every record the same cross-reference id.
C1_Phase2Idempotent ==
    (Phase2Clean /\ p2prev.clean /\ p2prev.entries = p2entries)
        => (engine = p2prev.engine /\ openSearchId = p2prev.ids)

\* C2: between commands, whatever Phase 1, Phase 2 and Run executions came
\* before, every authoritative id is stored in at most one engine document
\* (the one-to-one half of the claim; the other half, that the record holds
\* that document's id as its cross-reference, cannot hold without it).
C2_OneEngineDocumentPerRecord ==
    cmd = "none" =>
        \A d1, d2 \in engine : d1.mongo_id = d2.mongo_id => d1 = d2

Phase1Returned == cmd = "phase1" /\ p1pc = "done"

\* C4: a Phase 1 run sends no id of the cache it loaded to the embedding
\* service, and when it completes the cache holds the loaded entries plus the
\* entries embedded by this run, each once: count = loaded + processed, and
\* that is what the final Save wrote.
C4_ResumeSkipsCached ==
    cmd = "phase1" =>
        /\ embedSent \cap loaded = {}
        /\ (p1pc = "done" /\ p1ret = "nil") =>
              /\ loaded \subseteq Range(centries)
              /\ Range(centries) \ loaded \subseteq embedSent
              /\ Cardinality(Range(centries)) = Len(centries)
              /\ Len(centries) = Cardinality(loaded) + processed
              /\ finalSave = "ok" => (entriesFile.st = "ok" /\ entriesFile.entries = centries)

\* a run started after a kill has completed: it skipped cached documents and
\* embedded new ones
C4_Witness ==
    /\ Phase1Returned
    /\ p1ret = "nil"
    /\ resumed
    /\ loaded # {}
    /\ skipped > 0
    /\ processed > 0

\* C5: after a kill, the cache loaded by the next run has every entry of the
\* last Save that ran to its end.
C5_CrashKeepsLastSave ==
    (cmd = "phase1" /\ p1pc = "count" /\ resumed)
        => Range(lastSaved) \subseteq Range(centries)

\* C6: after a kill, Load either finds an incomplete file and the run starts
\* with an empty cache, or returns the entries of the very Save that wrote the
\* metadata it returns.
C6_LoadNeverMixesSaves ==
    (cmd = "phase1" /\ p1pc = "count" /\ resumed) =>
        /\ (metaFile.st = "partial" \/ (metaFile.st = "ok" /\ entriesFile.st # "ok"))
              => centries = <<>>
        /\ (metaFile.st = "ok" /\ entriesFile.st = "ok")
              => (centries = entriesFile.entries /\ metaFile.of = centries)

\* every goroutine Phase 1 started has returned
Phase1Terminated ==
    /\ spc = "done"
    /\ bpc = "done"
    /\ \A w \in Workers : wpc[w] = "done"
    /\ tpc = "done"

PastSemaphore == {c \in Callers : epc[c] \in {"rate", "attempt", "backoff"}}

InFlight == {c \in Callers : epc[c] = "attempt"}

C9_CancelAbortsWithoutRetry ==
    [][\A c \in Callers :
         (/\ ctxDone
          /\ \/ epc[c] = "backoff"
             \/ epc[c] = "acquire" /\ semaphore = maxConcurrent)
         => /\ nreq'[c] = nreq[c]
            /\ sleeps'[c] = sleeps[c]
            /\ epc'[c] \notin {"rate", "attempt"}]_vars

\* min(2^i, 10)
ExpectedWait(i) == IF i >= 4 THEN 10 ELSE Pow2(i)

\* C10: a call issues at most MaxRetries attempts, stops at the first success,
\* returns an error wrapping the last attempt's error when all attempts fail,
\* waits min(2^i, 10) seconds after failed attempt i and does not wait after
\* the final attempt.
C10_RetryAndBackoff ==
    \A c \in callers :
        /\ nreq[c] <= maxRetries
        /\ Len(sleeps[c]) <= maxRetries - 1
        /\ \A i \in 1..Len(sleeps[c]) : sleeps[c][i] = ExpectedWait(i - 1)
        /\ (epc[c] = "done" /\ eret[c] = "ok")
              => /\ nreq[c] <= maxRetries
                 /\ Len(sleeps[c]) = IF nreq[c] = 0 THEN 0 ELSE nreq[c] - 1
        /\ (epc[c] = "done" /\ eret[c] = "failed")
              => /\ nreq[c] = maxRetries
                 /\ lastErr[c] = maxRetries
                 /\ Len(sleeps[c]) = maxRetries - 1

(***************************************************************************)
(* Claims about what Phase 1 writes to the cache.                          *)
(***************************************************************************)
\* the documents of the batches the workers hold
InWorkers == UNION {Range(wdocs[w]) : w \in Workers}

\* C11: in Phase 1 every batch an embed worker takes is all-or-nothing.  No
\* document of a batch given up after a failed sub-batch call has a cache
\* entry, whatever embeddings earlier sub-batches returned; the batch is
\* counted in errors with its full size; a document whose call succeeded is in
\* a given-up batch, in the cache, or in a batch still in a worker's hands.
\* The step that gives a batch up writes nothing to the cache and puts the
\* worker back at the receive of the next batch; the step that ends a batch
\* whose calls all succeeded leaves an entry for every document of it.
C11_BatchAllOrNothing ==
    /\ [](cmd = "phase1" =>
            /\ dropped \cap Range(centries) = {}
            /\ p1errors = Cardinality(dropped)
            /\ embedOk \subseteq (dropped \cup Range(centries) \cup InWorkers))
    /\ [][\A w \in Workers :
            /\ (cmd = "phase1" /\ cmd' = "phase1" /\ wpc[w] = "embed"
                    /\ wpc'[w] \notin {"embed", "lock"})
                  => /\ wpc'[w] = "recv"
                     /\ centries' = centries
                     /\ Range(wdocs[w]) \subseteq dropped'
            /\ (cmd = "phase1" /\ cmd' = "phase1" /\ wpc[w] = "lock" /\ wpc'[w] # "lock")
                  => Range(wdocs[w]) \subseteq Range(centries')]_vars

\* a batch was given up after one of its sub-batches had been embedded, and
\* another batch of the same run was written to the cache
C11_Witness ==
    /\ cmd = "phase1"
    /\ dropped \cap embedOk # {}
    /\ Range(centries) \ loaded # {}
    /\ \E w \in Workers : wpc[w] = "recv"

\* C12 as stated: when a Phase 1 run has returned, the ids with a cache entry
\* are the ids of the loaded cache and the ids for which this run obtained an
\* embedding.
C12_EntryIffEmbedded ==
    Phase1Returned => Range(centries) = loaded \cup embedOk

\* C12 as amended: when a Phase 1 run has returned, the ids with a cache entry
\* are the ids of the loaded cache and the ids for which this run obtained an
\* embedding in a batch that was not given up: a document embedded in a batch
\* of which a later sub-batch failed has no entry.
C12_EntryIffBatchEmbedded ==
    Phase1Returned => Range(centries) = loaded \cup (embedOk \ dropped)

\* a run has returned after it wrote one batch and gave another up that had
\* an embedded sub-batch
C12_Witness ==
    /\ Phase1Returned
    /\ p1ret = "nil"
    /\ embedOk \cap dropped # {}
    /\ embedOk \ dropped # {}

(***************************************************************************)
(* SpecCache: goroutines that call the methods of one cache concurrently.  *)
(***************************************************************************)
CacheInit ==
    /\ ParkedEmb
    /\ ParkedCache
    /\ ParkedStores
    /\ ParkedPhase1
    /\ ParkedPhase2
    /\ ParkedPipeline
    /\ ParkedRest

CacheNext ==
    \/ \E t \in CacheThreads, id \in CacheIds :
           CacheCall(t, "AddEntry", <<id>>) \/ CacheCall(t, "IsProcessed", <<id>>)
    \/ \E t \in CacheThreads, ids \in DistinctSeqs(CacheIds) : CacheCall(t, "AddEntries", ids)
    \/ \E t \in CacheThreads : CacheCall(t, "GetEntries", <<>>) \/ CacheCall(t, "Count", <<>>)
    \/ \E t \in CacheThreads : CacheLock(t)
    \/ \E t \in CacheThreads : CacheAppend(t)
    \/ \E t \in CacheThreads : CacheMark(t)
    \/ \E t \in CacheThreads : CacheUnlock(t)
    \/ \E t \in CacheThreads : CacheRLock(t)
    \/ \E t \in CacheThreads : CacheRead(t)
    \/ \E t \in CacheThreads : CacheRUnlock(t)

SpecCache == CacheInit /\ [][CacheNext]_vars

\* C13: whatever the interleaving of AddEntry / AddEntries with IsProcessed,
\* GetEntries and Count, an IsProcessed call never returns false for an id
\* that, before the call was made, a returned GetEntries had shown in the
\* entry list or a returned AddEntry / AddEntries had added; every id of an
\* entry that GetEntries copies, and every id that a returned Add call added,
\* is in the processed set; no reader holds
\* the lock together with a writer, and while no writer holds it every entry
\* of the list is reported as processed.
C13_ReadersSeeProcessedEntries ==
    /\ \A t \in CacheReaders :
           (kpc[t] = "idle" /\ kop[t] = "IsProcessed" /\ kres[t].found = "false")
               => karg[t][1] \notin kbefore[t]
    /\ \A t \in CacheReaders : Range(kres[t].entries) \subseteq processedIDs
    /\ known \subseteq processedIDs
    /\ muW # 0 => muR = {}
    /\ muW = 0 => Range(centries) \subseteq processedIDs

\* a writer is inside AddEntry, between its two writes, while a reader that
\* saw an entry in the list has been told that its id is processed and
\* another reader waits for the lock
C13_Witness ==
    /\ \E t \in CacheWriters : kop[t] = "AddEntry" /\ kpc[t] = "mark"
    /\ \E t \in CacheReaders :
           /\ kpc[t] = "idle"
           /\ kop[t] = "IsProcessed"
           /\ kres[t].found = "true"
           /\ karg[t][1] \in kbefore[t]
    /\ \E t \in CacheReaders : kpc[t] = "rlock"

(***************************************************************************)
(* Claims about failures in Phase 2.                                       *)
(***************************************************************************)
\* the authoritative ids of the updates collected for the back-sync
UpdateIds == {mongoUpdates[k].MongoID : k \in DOMAIN mongoUpdates}

ReportedUpdated == Len(mongoUpdates)

\* the ids of the updates whose back-sync batch was sent and failed
SyncFailed == {mongoUpdates[k].MongoID : k \in 1..Min(p2j, Len(mongoUpdates))} \ p2synced

\* C15: when Phase 2 has returned, every update of a back-sync batch that
\* failed is counted in the error counter, next to the entries the engine did
\* not index, and is not among the records reported as updated.
C15_SyncFailureIsCounted ==
    (Phase2Returned /\ p2ret = "nil") =>
        /\ p2errors = (Len(p2entries) - indexed) + Cardinality(SyncFailed)
        /\ ReportedUpdated = Cardinality(p2synced)

(***************************************************************************)
(* SpecSync: the back-sync of one command, Phase 2 or Run.                 *)
(***************************************************************************)
SyncInit ==
    /\ ParkedEmb
    /\ ParkedCache
    /\ NewStores(NumDocs)
    /\ ParkedPhase1
    /\ ParkedPhase2
    /\ ParkedPipeline
    /\ ParkedRest

SyncNext ==
    \/ \E n \in 1..NumDocs : SyncPhase2Step4(n)
    \/ SyncPhase2Begin
    \/ SyncRunStart
    \/ \E w \in Workers : SyncProduce(w)
    \/ SyncClose
    \/ \E t \in SyncThreads : SyncRecv(t)
    \/ \E t \in SyncThreads : SyncDrained(t)
    \/ \E t \in SyncThreads, applied \in SUBSET (1..OpenSearchBulkSize), err \in BOOLEAN :
           SyncEnd(t, applied, err)
    \/ CancelCtx

SpecSync == SyncInit /\ [][SyncNext]_vars

\* the back-sync goroutines inside BulkUpdateOpenSearchIDs
InSync == {t \in SyncThreads : upc[t] = "update"}

\* C16: at any time at most one goroutine is inside BulkUpdateOpenSearchIDs,
\* in Phase 2 and in Run, however many update lists the index workers have
\* queued.
C16_OneBulkUpdateInFlight == Cardinality(InSync) <= 1

\* Run: a bulk update is in flight while two more update lists wait in the
\* channel
C16_Witness ==
    /\ cmd = "run"
    /\ InSync # {}
    /\ Len(mongoUpdateChan) >= 2

(***************************************************************************)
(* SpecReindex: one ReindexFull, on a store that an earlier indexing may   *)
(* have filled and a cache that an earlier Phase 1 may have saved.         *)
(***************************************************************************)
\* the stores after record 1 was indexed
IndexedStores ==
    /\ openSearchId = [m \in MongoIds |-> IF m = 1 THEN 1 ELSE 0]
    /\ engine = {[id |-> 1, mongo_id |-> 1]}
    /\ nextOsId = 2
    /\ indexExists = TRUE
    /\ collection = 1..NumDocs

ReindexInit ==
    /\ ParkedEmb
    /\ NewCache
    /\ \E q \in DistinctSeqs(1..NumDocs) : SavedCache(q)
    /\ NewStores(NumDocs) \/ IndexedStores
    /\ ParkedPhase1
    /\ ParkedPhase2
    /\ ParkedPipeline
    /\ ParkedRest

ReindexNext ==
    \/ ReindexFull
    \/ \E ok \in BOOLEAN : ReindexDeleteIndex(ok)
    \/ \E ok \in CreateOutcomes : ReindexCreateIndex(ok)
    \/ \E cleared \in SUBSET MongoIds, ok \in BOOLEAN : ReindexClearMongoIDs(cleared, ok)
    \/ \E rmCache, rmMeta \in BOOLEAN : ReindexClearCache(rmCache, rmMeta)
    \/ ReindexPhase1Call
    \/ \E new \in DistinctSeqs(MongoIds), ok \in BOOLEAN : ReindexPhase1Return(new, ok)
    \/ ReindexPhase2Call
    \/ \E acc \in SUBSET (1..NumDocs), ok \in BOOLEAN : ReindexPhase2Return(acc, ok)

SpecReindex == ReindexInit /\ [][ReindexNext]_vars

ReindexSteps == <<"delete", "create", "clearIds", "clearCache", "phase1", "phase2">>

\* C17: the steps ReindexFull has started are, in order, the first steps of
\* delete index, create index, clear ids, clear cache, Phase 1, Phase 2; it
\* returns nil only after all six.  When create-index or the clearing of the
\* ids has failed, ReindexFull has returned an error, that step is the last
\* one it started, and the cache in memory and on disk is as it was.
C17_ReindexOrder ==
    /\ Len(flog) <= Len(ReindexSteps)
    /\ \A i \in DOMAIN flog : flog[i] = ReindexSteps[i]
    /\ (fpc = "done" /\ fret = "nil") => flog = ReindexSteps
    /\ ffailed \in {"create", "clearIds"} =>
           /\ fpc = "done"
           /\ fret = "err"
           /\ flog[Len(flog)] = ffailed
           /\ centries = <<>>
           /\ metaFile.st = "ok"
           /\ entriesFile = [st |-> "ok", entries |-> lastSaved]
    /\ fpc = "inPhase1" => (indexExists /\ centries = <<>>)

\* the clearing of the ids has failed after the index was deleted and
\* created again, with a saved cache on disk
C17_Witness ==
    /\ ffailed = "clearIds"
    /\ engine = {}
    /\ indexExists
    /\ lastSaved # <<>>

(***************************************************************************)
(* SpecSearch: requests to the search service over a store that holds the  *)
(* records 1..NumDocs - 1 (an engine hit may name a record that is gone).  *)
(***************************************************************************)
SearchInit ==
    /\ ParkedEmb
    /\ NewCache
    /\ SavedCache(<<>>)
    /\ NewStores(NumDocs - 1)
    /\ ParkedPhase1
    /\ ParkedPhase2
    /\ ParkedPipeline
    /\ ParkedRest

SearchNext ==
    \/ \E r \in SearchSlots, req \in SearchRequests : Search(r, req)
    \/ \E r \in SearchSlots, getOk \in BOOLEAN : SearchCacheCheck(r, getOk)
    \/ \E r \in SearchSlots, outcome \in EmbedOutcomes : SearchEmbedQuery(r, outcome)
    \/ \E r \in SearchSlots, matches \in 0..1, ok \in EngineOutcomes : SearchBm25Check(r, matches, ok)
    \/ \E r \in SearchSlots, hits \in HitLists, more \in 0..1, ok \in EngineOutcomes :
            SearchQuery(r, hits, more, ok)
    \/ \E r \in SearchSlots, docs \in DistinctSeqs({[_id |-> m] : m \in MongoIds}), ok \in BOOLEAN :
            SearchHydrate(r, docs, ok)
    \/ \E r \in SearchSlots, facultyOk, setOk \in BOOLEAN : SearchRespond(r, facultyOk, setOk)
    \/ \E k \in CacheKeys : RedisExpire(k)

SpecSearch == SearchInit /\ [][SearchNext]_vars

\* C18: a search that was called while the result cache held an unexpired
\* entry for its key returns that entry with cacheHit = true and has called
\* neither the embedding service, the engine nor the document store.
C18_CachedSearchIsAHit ==
    \A r \in SearchSlots :
        (srpc[r] = "done" /\ shad[r] # NoCached /\ redis[getCacheKey(sreq[r])] = shad[r]) =>
            /\ sres[r] = [status |-> 200, results |-> shad[r].results,
                          total |-> shad[r].total, cacheHit |-> TRUE]
            /\ scalls[r] \subseteq {"cacheGet"}

\* C19: a search whose pre-check counted no match has returned no results,
\* total 0 and cacheHit = false, and has neither run the main query, nor
\* looked up records, nor written the result cache; the step that receives
\* the zero count ends the request and leaves the result cache as it is.
C19_NoLexicalMatchIsEmptyAndUncached ==
    /\ [](\A r \in SearchSlots :
            sbm25[r] = 0 =>
                /\ srpc[r] = "done"
                /\ sres[r] = [status |-> 200, results |-> <<>>, total |-> 0, cacheHit |-> FALSE]
                /\ scalls[r] \cap {"engineQuery", "storeFind", "storeFaculty", "cacheSet"} = {})
    /\ [][\A r \in SearchSlots :
            (sbm25[r] # 0 /\ sbm25'[r] = 0) => redis' = redis]_vars

\* a request whose pre-check found nothing has returned while the result
\* cache holds the response of an earlier request
C19_Witness ==
    \E r \in SearchSlots :
        /\ srpc[r] = "done"
        /\ sbm25[r] = 0
        /\ redis[getCacheKey(sreq[r])] = NoCached
        /\ \E k \in CacheKeys : redis[k] # NoCached

\* the positions of the hits whose record the batch lookup found
FoundPositions(r) ==
    {i \in DOMAIN shits[r] : CastObjectId(shits[r][i]._source.mongo_id) \in sfound[r]}

\* C20: the hydrated results are the hits whose record was found, one
\* result per such hit, in the order of the hits: the k-th result is the
\* record of the k-th hit that was found.
C20_HydrationKeepsHitOrder ==
    \A r \in SearchSlots :
        srpc[r] = "respond" =>
            /\ Len(sresults[r]) = Cardinality(FoundPositions(r))
            /\ \A k \in DOMAIN sresults[r] :
                   \E i \in FoundPositions(r) :
                       /\ Cardinality({j \in FoundPositions(r) : j < i}) = k - 1
                       /\ sresults[r][k] = [_id |-> CastObjectId(shits[r][i]._source.mongo_id)]

\* two hits were found in the other order than the store delivered them
\* (here: no hit was dropped), and a hit was dropped before one that stayed
C20_Witness ==
    /\ \E r \in SearchSlots :
            /\ srpc[r] = "respond"
            /\ Len(sresults[r]) = 2
            /\ sresults[r][1]._id > sresults[r][2]._id
    /\ \E r \in SearchSlots :
            /\ srpc[r] = "respond"
            /\ Len(shits[r]) = 2
            /\ Len(sresults[r]) = 1
            /\ 1 \notin FoundPositions(r)

(***************************************************************************)
(* SpecKey: the cache keys of two requests.                                *)
(***************************************************************************)
FnInitOthers ==
    /\ ParkedEmb
    /\ NewCache
    /\ SavedCache(<<>>)
    /\ ParkedStores
    /\ ParkedPhase1
    /\ ParkedPhase2
    /\ ParkedPipeline
    /\ ParkedCalls
    /\ ParkedSync
    /\ ParkedReindex
    /\ ParkedSearch
    /\ ParkedGap

KeyInit ==
    /\ FnInitOthers
    /\ fnName = "none"
    /\ fnArgs \in KeyRequests \X KeyRequests
    /\ fnResult = <<>>

KeyNext == CallGetCacheKey

SpecKey == KeyInit /\ [][KeyNext]_vars

\* the filters that count: the entries with a value, whatever their order
FilterSet(req) ==
    IF req.filters.defined
    THEN {req.filters.entries[i] : i \in {j \in DOMAIN req.filters.entries :
                                             req.filters.entries[j][2] \notin {"undefined", "null", ""}}}
    ELSE {}

\* _getSearchFields searches the default fields for an absent and for an
\* empty search_in
SearchInOrDefault(req) ==
    IF ~req.search_in.given \/ Len(req.search_in.list) = 0
    THEN <<"default">>
    ELSE req.search_in.list

\* two requests that differ at most in the order of their filters, in
\* filter entries without a value, and in how the default search_in is given
SameSearch(a, b) ==
    /\ a.query = b.query
    /\ FilterSet(a) = FilterSet(b)
    /\ SearchInOrDefault(a) = SearchInOrDefault(b)

\* C21: two requests that differ only in the order of the filter keys, in
\* filter entries whose value is null, undefined or empty, or in search_in
\* being absent or given as the default, have the same cache key.
C21_KeyIsStable ==
    fnName = "_getCacheKey" =>
        (SameSearch(fnArgs[1], fnArgs[2]) => fnResult[1] = fnResult[2])

\* (b) alone: requests that differ only in entries without a value
C21_KeyIgnoresEmptyValues ==
    fnName = "_getCacheKey" =>
        LET Kept(e) == e[2] \notin {"undefined", "null", ""}
            Entries(req) == IF req.filters.defined
                            THEN SelectSeq(req.filters.entries, Kept) ELSE <<>>
        IN  (/\ fnArgs[1].query = fnArgs[2].query
             /\ Entries(fnArgs[1]) = Entries(fnArgs[2])
             /\ fnArgs[1].search_in = fnArgs[2].search_in) => fnResult[1] = fnResult[2]

\* C22: a search that failed is answered 503 when the query embedding could
\* not be obtained, 502 when a call to the engine failed, 500 otherwise.
C22_StatusTellsWhatFailed ==
    \A r \in SearchSlots :
        (srpc[r] = "done" /\ sres[r].status \notin {0, 200}) =>
            sres[r].status = controllerStatusByOrigin(sres[r])

\* C23: a failed read or write of the result cache never fails a search.  A
\* search whose cache call threw has not failed because of it; the step that
\* writes the cache returns the response made of the hydrated results and
\* the engine's total, with cacheHit = false, whether or not the write threw.
C23_CacheFailureIsNotFatal ==
    /\ [](\A r \in SearchSlots :
            (srpc[r] = "done" /\ scalls[r] \cap {"cacheGetFailed", "cacheSetFailed"} # {}) =>
                (sres[r].status # 200 => sres[r].origin # "cache"))
    /\ [][\A r \in SearchSlots :
            (srpc[r] = "respond" /\ srpc'[r] = "done") =>
                \/ sres'[r] = [status |-> 200, results |-> sresults[r],
                               total |-> stotal[r], cacheHit |-> FALSE]
                \/ /\ sres'[r].status # 200
                   /\ sres'[r].origin = "store"
                   /\ "cacheSet" \notin scalls'[r]]_vars

\* a search with results has returned them although its cache write threw
C23_Witness ==
    \E r \in SearchSlots :
        /\ srpc[r] = "done"
        /\ "cacheSetFailed" \in scalls[r]
        /\ sres[r].status = 200
        /\ Len(sres[r].results) > 0
        /\ redis[getCacheKey(sreq[r])] = NoCached

(***************************************************************************)
(* SpecScore: a search with sort = normalized over an index of             *)
(* NumScoredDocs matching documents.                                       *)
(***************************************************************************)
ScoreInit ==
    /\ FnInitOthers
    /\ fnName = "none"
    /\ fnArgs \in [1..NumScoredDocs -> ScoredDocs]
    /\ fnResult = <<>>

ScoreNext == CallNormalizedSearch

SpecScore == ScoreInit /\ [][ScoreNext]_vars

\* C24: with sort = normalized every matching document whose fused score is
\* at least 0.3 is among the hits, and the hits are in descending order of
\* their fused score.
C24_NormalizedGateIsPointThree ==
    fnName = "search:normalized" =>
        /\ \A i \in DOMAIN fnArgs :
               FusedScore(fnArgs[i]) >= 300000 => \E k \in DOMAIN fnResult : fnResult[k] = fnArgs[i]
        /\ \A k \in DOMAIN fnResult :
               k > 1 => FusedScore(fnResult[k - 1]) >= FusedScore(fnResult[k])

(***************************************************************************)
(* SpecFilter: author filters against one engine document.                 *)
(***************************************************************************)
FilterInit ==
    /\ FnInitOthers
    /\ fnName = "none"
    /\ fnArgs \in [filters : AuthorFilters, authors : AuthorLists]
    /\ fnResult = <<>>

FilterNext == CallBuildFilters

SpecFilter == FilterInit /\ [][FilterNext]_vars

\* C25: with first_author_only and another author filter, a document is
\* matched only if one element of its authors array has position 1 and
\* satisfies the other author filters as well.
C25_FirstAuthorFilterIsOneElement ==
    (/\ fnName = "_buildFilters"
     /\ fnArgs.filters.first_author_only
     /\ (fnArgs.filters.author_id # "none" \/ fnArgs.filters.affiliation # "none")
     /\ fnResult.matches) =>
        \E i \in DOMAIN fnArgs.authors :
            /\ fnArgs.authors[i].author_position = 1
            /\ fnArgs.filters.author_id # "none" =>
                   fnArgs.authors[i].author_id = fnArgs.filters.author_id
            /\ fnArgs.filters.affiliation # "none" =>
                   fnArgs.authors[i].author_affiliation = fnArgs.filters.affiliation

(***************************************************************************)
(* SpecMapping: the engine document of one record, built by Phase 2 or by  *)
(* Run.                                                                    *)
(***************************************************************************)
MappingInit ==
    /\ FnInitOthers
    /\ fnName = "none"
    /\ fnArgs \in [Authors : RecordAuthors, SubjectArea : SubjectAreas]
    /\ fnResult = <<>>

MappingNext == CallPhase2Document \/ CallRunDocument

SpecMapping == MappingInit /\ [][MappingNext]_vars

\* C26: every engine document the indexer builds has subject_area_count
\* equal to the length of subject_area, and author_names equal to the
\* author_name values of its nested authors, in their order.
C26_DerivedFieldsAgree ==
    fnName \in {"Phase2IndexAndUpdate", "Run"} =>
        /\ fnResult.subject_area_count = Len(fnResult.subject_area)
        /\ fnResult.author_names = [k \in DOMAIN fnResult.authors |-> fnResult.authors[k].author_name]

\* the same for the documents of Phase 2 alone
C26_Phase2FieldsAgree ==
    fnName = "Phase2IndexAndUpdate" =>
        /\ fnResult.subject_area_count = Len(fnResult.subject_area)
        /\ fnResult.author_names = [k \in DOMAIN fnResult.authors |-> fnResult.authors[k].author_name]

(***************************************************************************)
(* SpecCreate: up to MaxCreateCalls calls of CreateIndex, on an engine     *)
(* without the index or with an index that holds a document.               *)
(***************************************************************************)
CreateInit ==
    /\ ParkedEmb
    /\ NewCache
    /\ SavedCache(<<>>)
    /\ NewStores(NumDocs) \/ IndexedStores
    /\ ParkedPhase1
    /\ ParkedPhase2
    /\ ParkedPipeline
    /\ ParkedCalls
    /\ ParkedSync
    /\ ParkedReindex
    /\ ParkedSearch
    /\ ParkedGap
    /\ fnName = "none"
    /\ fnArgs = <<>>
    /\ fnResult = <<>>

CreateNext == \E how \in CreateOutcomes : CallCreateIndex(how)

SpecCreate == CreateInit /\ [][CreateNext]_vars

\* C27 as stated: a call made while the index exists sends no create
\* request and returns success.
C27_ExistingIndexIsNoopSuccess ==
    \A i \in DOMAIN fnResult :
        fnResult[i].existed => (~fnResult[i].sent /\ fnResult[i].ret = "nil")

\* C27: a call made while the index exists leaves the index as it is; when
\* its existence check is answered (200), it sends no create request and
\* returns nil; when the check fails without an answer, it sends no create
\* request and returns the error.  After a call that returned nil the index
\* exists, so that every later call leaves it as the first one left it.
C27_CreateIndexIsIdempotent ==
    /\ [](\A i \in DOMAIN fnResult :
            /\ (fnResult[i].existed /\ fnResult[i].check = "answered") =>
                   (~fnResult[i].sent /\ fnResult[i].ret = "nil")
            /\ fnResult[i].check = "error" => (~fnResult[i].sent /\ fnResult[i].ret = "err")
            /\ fnResult[i].ret = "nil" =>
                   /\ \A j \in DOMAIN fnResult : j > i => fnResult[j].existed
                   /\ indexExists)
    /\ [][(fnName' = "CreateIndex" /\ indexExists) =>
            (indexExists' /\ engine' = engine)]_vars

\* the index was created by the first call, the second call found it and
\* did nothing, the third could not check and returned the error
C27_Witness ==
    /\ Len(fnResult) = 3
    /\ ~fnResult[1].existed /\ fnResult[1].sent /\ fnResult[1].ret = "nil"
    /\ fnResult[2].existed /\ ~fnResult[2].sent /\ fnResult[2].ret = "nil"
    /\ fnResult[3].check = "error" /\ fnResult[3].ret = "err"
    /\ indexExists

\* the engine documents of a list of updates
UpdateDocs(updates) ==
    {[id |-> updates[k].OpenSearchID, mongo_id |-> updates[k].MongoID] : k \in DOMAIN updates}

\* C28: a bulk request that was answered yields one update for each
\* document whose item has a 2xx status, with the _id of that item, and
\* none for the others, which are counted as errors: the updates a Phase 2
\* slice appends, and the updates an index worker of Run builds from a
\* batch, are the engine documents the request created, and the error
\* counter grows by the number of the other documents.
C28_UpdateIffItemAccepted ==
    /\ [][(cmd = "phase2" /\ cmd' = "phase2" /\ p2pc = "index" /\ p2i' # p2i) =>
            LET slice == SubSeq(p2entries, p2i + 1, Min(p2i + OpenSearchBulkSize, Len(p2entries)))
                new == SubSeq(mongoUpdates', Len(mongoUpdates) + 1, Len(mongoUpdates'))
            IN  /\ SubSeq(mongoUpdates', 1, Len(mongoUpdates)) = mongoUpdates
                /\ UpdateDocs(new) = engine' \ engine
                /\ Len(new) = Cardinality(engine' \ engine)
                /\ {new[k].MongoID : k \in DOMAIN new} \subseteq Range(slice)
                /\ p2errors' - p2errors = Len(slice) - Len(new)
                /\ indexed' - indexed = Len(new)]_vars
    /\ [][(cmd = "run" /\ cmd' = "run" /\ ~ctxDone /\ Len(embeddedChan') < Len(embeddedChan)) =>
            LET docs == Head(embeddedChan)
                Built(w) == ipc[w] = "recv" /\ ipc'[w] = "send"
                new == IF \E w \in Workers : Built(w)
                       THEN iupd'[CHOOSE w \in Workers : Built(w)]
                       ELSE <<>>
            IN  /\ UpdateDocs(new) = engine' \ engine
                /\ Len(new) = Cardinality(engine' \ engine)
                /\ {new[k].MongoID : k \in DOMAIN new} \subseteq Range(docs)
                /\ errorCount' - errorCount = Len(docs) - Len(new)
                /\ successCount' - successCount = Len(new)]_vars

\* an index worker of Run holds the one update of a batch of two documents
\* of which the engine refused the first
C28_Witness ==
    /\ cmd = "run"
    /\ \E w \in Workers :
           /\ ipc[w] = "send"
           /\ Len(iupd[w]) = 1
           /\ iupd[w][1].MongoID = 2
           /\ UpdateDocs(iupd[w]) \subseteq engine
    /\ errorCount = 1
    /\ successCount = 1

\* the documents of a list of batches, in order
RECURSIVE FlattenBatches(_)
FlattenBatches(batches) ==
    IF batches = <<>> THEN <<>> ELSE Head(batches) \o FlattenBatches(Tail(batches))

\* the documents the batch collector of Phase 1 has taken from docChan
P1Received ==
    LET stream == QueryResult(p1reindexAll, p1limit)
    IN  SubSeq(stream, 1, Len(stream) - Len(cursor) - Len(docChan))

\* C29: in a Phase 1 run that is not cancelled, the batches sent, followed
\* by the batch being collected, are the received documents that the cache
\* did not have, each once and in stream order; no cached document is among
\* them; every batch sent has MongoBatchSize documents, except that the last
\* one, sent when the stream has ended, may have fewer but at least one; and
\* when the collector ends every streamed document has been received.
C29_BatchesPartitionUncached ==
    (cmd = "phase1" /\ bpc # "none" /\ ~ctxDone) =>
        LET NotCached(m) == m \notin loaded
            pending == IF bpc = "done" THEN <<>> ELSE batch
            all == FlattenBatches(batchLog) \o pending
        IN  /\ all = SelectSeq(P1Received, NotCached)
            /\ \A i, j \in DOMAIN all : i # j => all[i] # all[j]
            /\ \A k \in DOMAIN batchLog :
                   \/ Len(batchLog[k]) = MongoBatchSize
                   \/ /\ k = Len(batchLog)
                      /\ bpc = "done"
                      /\ Len(batchLog[k]) \in 1..(MongoBatchSize - 1)
            /\ Len(pending) < MongoBatchSize \/ bpc = "send"
            /\ bpc = "done" => cursor = <<>> /\ docChan = <<>>

\* a run that was not cancelled has ended its collector after skipping a
\* cached document, sending one full batch and then a last, shorter one
C29_Witness ==
    /\ cmd = "phase1"
    /\ ~ctxDone
    /\ bpc = "done"
    /\ skipped >= 1
    /\ batchLog # <<>>
    /\ Len(batchLog[Len(batchLog)]) < MongoBatchSize

\* a run that was not cancelled has sent a full batch and a last, shorter one
C29_WitnessTwoBatches ==
    /\ cmd = "phase1"
    /\ ~ctxDone
    /\ bpc = "done"
    /\ Len(batchLog) = 2
    /\ Len(batchLog[2]) < MongoBatchSize

(***************************************************************************)
(* The embedding client with its clock.  The gate of GetEmbeddings reads   *)
(* and sets lastReq once per call, before the retry loop; a request starts *)
(* the moment the gate is passed or the backoff sleep is over (no delay is *)
(* added in between), and takes any time to fail.                          *)
(***************************************************************************)
TimedGetEmbeddings(c, n) ==
    /\ GetEmbeddings(c, n)
    /\ UNCHANGED gapVars

TimedAcquire(c) ==
    /\ Acquire(c)
    /\ UNCHANGED gapVars

\* elapsed := time.Since(c.lastReq); if elapsed < 100ms { time.Sleep(100ms - elapsed) };
\* c.lastReq = time.Now()  -- with c.mu held, so no other caller is at the gate
TimedRateLimit(c) ==
    LET elapsed == now - lastReq
        wake == IF elapsed < MinGapMs THEN now + (MinGapMs - elapsed) ELSE now
    IN  /\ wake <= MaxTimeMs
        /\ RateLimit(c)
        /\ now' = wake
        /\ lastReq' = wake
        /\ reqDue' = [reqDue EXCEPT ![c] = wake]
        /\ UNCHANGED reqStarts

\* c.doRequest(ctx, texts): httpClient.Do starts the request
TimedDoRequest(c, ok) ==
    /\ now = reqDue[c]
    /\ Len(reqStarts) < MaxGapRequests
    /\ DoRequest(c, ok)
    /\ reqStarts' = Append(reqStarts, [caller |-> c, attempt |-> attempt[c], at |-> now])
    /\ UNCHANGED <<now, lastReq, reqDue>>

\* time.Sleep(backoff): the next request is due when the sleep is over;
\* lastReq is neither read nor written
TimedBackoff(c) ==
    /\ Backoff(c)
    /\ reqDue' = [reqDue EXCEPT ![c] = now + 1000 * BackoffSeconds(attempt[c])]
    /\ UNCHANGED <<now, lastReq, reqStarts>>

TimedEmbedReturn(c) ==
    /\ EmbedReturn(c)
    /\ UNCHANGED gapVars

\* time passes, but not past the start of a request that is reqDue
Tick ==
    /\ now + TickMs <= MaxTimeMs
    /\ \A c \in callers : epc[c] = "attempt" => now < reqDue[c]
    /\ now' = now + TickMs
    /\ UNCHANGED <<ctxDone, embVars, lastReq, reqDue, reqStarts, notEmb>>

\* SpecGap: two callers share one client whose MaxRetries is 1 or 2.
GapInit ==
    /\ \E r \in 1..SmallRetries : EmbStart({1, 2}, r)
    /\ ParkedCache /\ ParkedStores /\ ParkedPhase1 /\ ParkedPhase2 /\ ParkedPipeline /\ ParkedRest

GapNext ==
    \/ \E c \in Callers : TimedGetEmbeddings(c, 1)
    \/ \E c \in Callers : TimedAcquire(c)
    \/ \E c \in Callers : TimedRateLimit(c)
    \/ \E c \in Callers, ok \in BOOLEAN : TimedDoRequest(c, ok)
    \/ \E c \in Callers : TimedBackoff(c)
    \/ \E c \in Callers : TimedEmbedReturn(c)
    \/ Tick

SpecGap == GapInit /\ [][GapNext]_vars

\* C30: any two HTTP requests of one client, of the same call or of
\* different calls, first attempts and retries alike, start at least
\* 100 ms apart.
C30_RequestsStartGapApart ==
    \A i, j \in DOMAIN reqStarts :
        i < j => reqStarts[j].at - reqStarts[i].at >= MinGapMs

\* the first attempts of any two calls start at least 100 ms apart
C30_FirstAttemptsStartGapApart ==
    \A i, j \in DOMAIN reqStarts :
        (i < j /\ reqStarts[i].attempt = 0 /\ reqStarts[j].attempt = 0) =>
            reqStarts[j].at - reqStarts[i].at >= MinGapMs

(***************************************************************************)
(* EmbeddingService.embedQuery (backend): the query embedding, cached in   *)
(* Redis under embed:<first 16 hex digits of sha256(text)>.  The hash is   *)
(* taken to be free of collisions on the texts of the model.               *)
(***************************************************************************)
Texts == {"t1", "t2"}

\* the vector the embedding service computes for a text
EmbeddingOf(text) == <<text, "vec">>

\* _getCacheKey(text)
embedCacheKey(text) == [ns |-> "embed", hash |-> text]

EmbedKeys == {embedCacheKey(t) : t \in Texts}

\* redis.get of a key that is not there
nil == [json |-> "nil"]

\* JSON.stringify(embedding) and JSON.parse(cached)
JsonStringify(v) == [json |-> "array", of |-> v]

JsonParse(str) == str.of

\* an embedQuery that lets an error of redis.get escape
embedQueryStrictRead(cache, text, read, remote, write) ==
    LET cacheKey == embedCacheKey(text)
        hit == read = "ok" /\ cache[cacheKey] # nil
        fetched == remote = "ok"
    IN  IF hit
        THEN [ret |-> "value", value |-> JsonParse(cache[cacheKey]), fetch |-> FALSE,
              setex |-> FALSE, cache |-> cache]
        ELSE IF read # "ok"
        THEN [ret |-> "throw", value |-> <<>>, fetch |-> FALSE, setex |-> FALSE, cache |-> cache]
        ELSE IF ~fetched
        THEN [ret |-> "throw", value |-> <<>>, fetch |-> TRUE, setex |-> FALSE, cache |-> cache]
        ELSE [ret |-> "value", value |-> EmbeddingOf(text), fetch |-> TRUE, setex |-> TRUE,
              cache |-> IF write = "ok"
                        THEN [cache EXCEPT ![cacheKey] = JsonStringify(EmbeddingOf(text))]
                        ELSE cache]

\* embedQuery(text) on the cache `cache`, when redis.get, the fetch and
\* redis.setex end as read, remote and write say: what it returns or throws,
\* whether it called the service and setex, and the cache it leaves.
embedQuery(cache, text, read, remote, write) ==
    LET cacheKey == embedCacheKey(text)
        hit == read = "ok" /\ cache[cacheKey] # nil
        fetched == remote = "ok"
    IN  IF hit
        THEN [ret |-> "value", value |-> JsonParse(cache[cacheKey]), fetch |-> FALSE,
              setex |-> FALSE, cache |-> cache]
        ELSE IF ~fetched
        THEN [ret |-> "throw", value |-> <<>>, fetch |-> TRUE, setex |-> FALSE, cache |-> cache]
        ELSE [ret |-> "value", value |-> EmbeddingOf(text), fetch |-> TRUE, setex |-> TRUE,
              cache |-> IF write = "ok"
                        THEN [cache EXCEPT ![cacheKey] = JsonStringify(EmbeddingOf(text))]
                        ELSE cache]

RedisOutcomes == {"ok", "error"}

\* one call of embedQuery; fnArgs is the embed: keyspace of Redis, fnResult
\* the calls made so far
CallEmbedQuery(text, read, remote, write) ==
    /\ fnName \in {"none", "embedQuery"}
    /\ Len(fnResult) < MaxEmbedCalls
    /\ fnName' = "embedQuery"
    /\ LET out == embedQuery(fnArgs, text, read, remote, write)
       IN  /\ fnArgs' = out.cache
           /\ fnResult' = Append(fnResult,
                  [text |-> text, before |-> fnArgs, read |-> read, remote |-> remote,
                   write |-> write, out |-> out])
    /\ UNCHANGED notFn

\* the TTL (redisTTL.queryEmbedding) of an embed: key runs out
EmbedKeyExpire(k) ==
    /\ fnName = "embedQuery"
    /\ fnArgs[k] # nil
    /\ fnArgs' = [fnArgs EXCEPT ![k] = nil]
    /\ UNCHANGED <<fnName, fnResult, notFn>>

EmbedQueryInit ==
    /\ FnInitOthers
    /\ fnName = "none"
    /\ fnArgs = [k \in EmbedKeys |-> nil]
    /\ fnResult = <<>>

EmbedQueryNext ==
    \/ \E text \in Texts, read \in RedisOutcomes, remote \in EmbedOutcomes, write \in RedisOutcomes :
           CallEmbedQuery(text, read, remote, write)
    \/ \E k \in EmbedKeys : EmbedKeyExpire(k)

SpecEmbedQuery == EmbedQueryInit /\ [][EmbedQueryNext]_vars

\* C31: embedQuery treats its cache as best-effort.  A call throws only
\* when it called the service and that call failed, whatever redis.get and
\* redis.setex did; a call that finds no usable cached value calls the
\* service and, when the service answers, returns the service's vector and
\* calls setex, which stores the vector under the text's embed: key when it
\* succeeds; a call whose service call failed leaves the cache as it was.
C31_EmbedCacheIsBestEffort ==
    \A i \in DOMAIN fnResult :
        LET e == fnResult[i]
            key == embedCacheKey(e.text)
            miss == e.read # "ok" \/ e.before[key] = nil
        IN  /\ e.out.ret = "throw" <=> (miss /\ e.remote # "ok")
            /\ miss <=> e.out.fetch
            /\ (miss /\ e.remote = "ok") =>
                   /\ e.out.ret = "value"
                   /\ e.out.value = EmbeddingOf(e.text)
                   /\ e.out.setex
                   /\ e.out.cache = IF e.write = "ok"
                                    THEN [e.before EXCEPT ![key] = JsonStringify(EmbeddingOf(e.text))]
                                    ELSE e.before
            /\ (miss /\ e.remote # "ok") => (~e.out.setex /\ e.out.cache = e.before)
            /\ ~miss => (e.out.value = JsonParse(e.before[key]) /\ e.out.cache = e.before)

\* a call whose redis.get failed and whose redis.setex failed has returned
\* the service's vector, and a later call was a hit on a stored vector
C31_Witness ==
    /\ \E i \in DOMAIN fnResult :
           /\ fnResult[i].read = "error"
           /\ fnResult[i].write = "error"
           /\ fnResult[i].remote = "ok"
           /\ fnResult[i].out.ret = "value"
    /\ \E i \in DOMAIN fnResult :
           /\ fnResult[i].read = "ok"
           /\ fnResult[i].before[embedCacheKey(fnResult[i].text)] # nil
           /\ ~fnResult[i].out.fetch

(***************************************************************************)
(* The main query of search for the sorts relevance, date, citations and   *)
(* impact, and what the engine makes of it for one document that passes    *)
(* the filters.  Scores are in thousandths.  A document carries the score  *)
(* of each clause that matches it (0: the clause does not match): mm for   *)
(* the fuzzy multi_match, strict for whether the multi_match without       *)
(* fuzziness matches too, sub for the subject_area / field_associated      *)
(* matches, knn for the k-NN clause (cosinesimil: at most 1.0), and boost  *)
(* for the sum of the functions of function_score.                         *)
(***************************************************************************)
\* searchConfig.minScore.hybrid and .impact
minScoreHybrid == 5000

minScoreImpact == 5000

ModeSorts == {"relevance", "date", "citations", "impact"}

ModeDocs ==
    {d \in [mm : {0, 700, 2000}, strict : BOOLEAN, sub : {0, 500}, knn : {0, 600, 1000},
            boost : {500, 1500}] : d.strict => d.mm > 0}

\* _buildHybridQuery: bool { should: [...], minimum_should_match: 1 }
buildHybridQuery(sort) ==
    [kind |-> "bool", must |-> {}, should |-> {"multi_match", "match", "knn"},
     minimum_should_match |-> 1, min_score |-> minScoreHybrid,
     sort |-> CASE sort = "date" -> <<"publication_year", "_score">>
                [] sort = "citations" -> <<"citation_count", "_score">>
                [] OTHER -> <<"_score">>]

\* _buildImpactQuery: function_score { bool { must: [multi_match], should: [...] } }
buildImpactQuery ==
    [kind |-> "function_score", must |-> {"multi_match_strict"},
     should |-> {"multi_match", "match"},
     minimum_should_match |-> 0, min_score |-> minScoreImpact, sort |-> <<"_score">>]

\* search: the builder chosen by sort (normalized is the subject of SpecScore)
buildQuery(sort) == IF sort = "impact" THEN buildImpactQuery ELSE buildHybridQuery(sort)

\* the score of one clause for a document
ClauseScore(clause, doc) ==
    CASE clause = "multi_match" -> doc.mm
      [] clause = "multi_match_strict" -> IF doc.strict THEN doc.mm ELSE 0
      [] clause = "match" -> doc.sub
      [] clause = "knn" -> doc.knn

RECURSIVE SumScores(_, _)
SumScores(clauses, doc) ==
    IF clauses = {} THEN 0
    ELSE LET cl == CHOOSE x \in clauses : TRUE
         IN  ClauseScore(cl, doc) + SumScores(clauses \ {cl}, doc)

\* the bool query: every must clause matches, and at least
\* minimum_should_match of the should clauses do
BoolMatches(osQuery, doc) ==
    /\ \A cl \in osQuery.must : ClauseScore(cl, doc) > 0
    /\ Cardinality({cl \in osQuery.should : ClauseScore(cl, doc) > 0}) >= osQuery.minimum_should_match

\* _score: the sum of the matching clauses; function_score with boost_mode
\* multiply multiplies it with the functions' sum
QueryScore(osQuery, doc) ==
    LET sum == SumScores(osQuery.must, doc) + SumScores(osQuery.should, doc)
    IN  IF osQuery.kind = "function_score" THEN (sum * doc.boost) \div 1000 ELSE sum

\* the engine returns the document: it matches and reaches min_score
IsHit(osQuery, doc) == BoolMatches(osQuery, doc) /\ QueryScore(osQuery, doc) >= osQuery.min_score

\* search runs its main query for fnArgs.sort on the document fnArgs.doc
CallSearchMode ==
    /\ fnName = "none"
    /\ fnName' = "search:mode"
    /\ LET osQuery == executedQuery(buildQuery(fnArgs.sort))
       IN  fnResult' = [query |-> osQuery, hit |-> IsHit(osQuery, fnArgs.doc)]
    /\ UNCHANGED <<fnArgs, notFn>>

ModeInit ==
    /\ FnInitOthers
    /\ fnName = "none"
    /\ fnArgs \in [sort : ModeSorts, doc : ModeDocs]
    /\ fnResult = <<>>

ModeNext == CallSearchMode

SpecMode == ModeInit /\ [][ModeNext]_vars

\* the document matches a keyword clause / only the k-NN clause
Lexical(doc) == doc.mm > 0 \/ doc.sub > 0

KnnAlone(doc) == doc.knn > 0 /\ ~Lexical(doc)

C32_WitnessFullScore ==
    /\ fnName = "search:mode"
    /\ fnArgs.sort = "date"
    /\ KnnAlone(fnArgs.doc)
    /\ fnResult.hit

\* C33 (saves): Phase 1 returns an error whenever a Save it performed
\* failed, the periodic Save of a worker as well as the Save of step 5.
C33_FailedSaveIsFatal ==
    (Phase1Returned /\ (autosaveErr \/ finalSave = "err")) => p1ret = "err"

\* Phase 1 returns an error when the Save of step 5 failed
C33_FailedFinalSaveIsFatal ==
    (Phase1Returned /\ finalSave = "err") => p1ret = "err"

\* C33 (load): a failed Load does not end Phase 1; it goes on to count the
\* documents with the entries it had in memory, which are none
C33_FailedLoadIsNotFatal ==
    [][(cmd = "none" /\ cmd' = "phase1" /\ LoadOutcome.err) =>
          (p1pc' = "count" /\ p1ret' = "none" /\ centries' = <<>> /\ processedIDs' = {})]_vars

(***************************************************************************)
(* SpecP1Resume: one Phase 1 run that starts with a cache an earlier run   *)
(* saved, after record 1 was indexed and cross-referenced (by Phase 2 or by *)
(* Run), so that the filter open_search_id in [nil, ""] no longer selects  *)
(* it.                                                                     *)
(***************************************************************************)
P1ResumeInit ==
    /\ ParkedEmb
    /\ NewCache
    /\ \E q \in DistinctSeqs(1..NumDocs) : SavedCache(q)
    /\ IndexedStores
    /\ \E limit \in {0, NumDocs - 1}, reindexAll \in BOOLEAN : Phase1Idle(limit, reindexAll)
    /\ ParkedPhase2
    /\ ParkedPipeline /\ ParkedRest

SpecP1Resume == P1ResumeInit /\ [][Phase1Steps]_vars

\* C34: a Phase 1 run that was not cancelled and met no embedding failure
\* has, when it returns without error, a cache entry for every document
\* its store query returns (the selected documents, up to the limit).
C34_SelectedAreCached ==
    (Phase1Returned /\ p1ret = "nil" /\ ~ctxDone /\ p1errors = 0) =>
        Range(QueryResult(p1reindexAll, p1limit)) \subseteq Range(centries)

\* the same for the runs that got as far as streaming
C34_StreamedAreCached ==
    (Phase1Returned /\ p1ret = "nil" /\ ~ctxDone /\ p1errors = 0 /\ spc # "none") =>
        Range(QueryResult(p1reindexAll, p1limit)) \subseteq Range(centries)

(***************************************************************************)
(* SpecRunLive: one Run on a collection of NumDocs records, every          *)
(* goroutine of the pipeline scheduled fairly; the context may be          *)
(* cancelled at any moment, every embedding call and every bulk request    *)
(* may fail.                                                               *)
(***************************************************************************)
RunLiveInit ==
    /\ ParkedEmb
    /\ NewCache
    /\ SavedCache(<<>>)
    /\ NewStores(NumDocs)
    /\ ParkedPhase1
    /\ ParkedPhase2
    /\ ParkedPipeline /\ ParkedRest

\* the collector goroutine of Run
RunBatcher == RunBatcherRecv \/ BatcherDrained \/ BatcherSend

\* one embed worker of Run
RunEmbedWorker(w) ==
    \/ EmbedWorkerRecv(w)
    \/ EmbedWorkerDrained(w)
    \/ \E ok \in BOOLEAN : RunEmbedCall(w, ok)
    \/ RunEmbedSend(w)

\* one index worker of Run
RunIndexWorker(w) ==
    \/ \E acc \in SUBSET (1..MongoBatchSize), err \in BOOLEAN : RunIndexBatch(w, acc, err)
    \/ IndexWorkerDrained(w)
    \/ RunIndexSend(w)

\* the one MongoDB update worker of Run
RunSyncWorker ==
    \/ \E applied \in SUBSET (1..MongoBatchSize), err \in BOOLEAN : RunSyncUpdates(applied, err)
    \/ SyncWorkerDrained

\* Run's own goroutine after the start
RunMain == RunWaitIndex \/ RunWaitMongo

RunLiveNext ==
    \/ \E limit \in {0, NumDocs - 1}, reindexAll \in BOOLEAN, ok \in BOOLEAN :
           Run(limit, reindexAll, ok)
    \/ StreamDocuments
    \/ RunBatcher
    \/ \E w \in Workers : RunEmbedWorker(w)
    \/ CloseEmbeddedChan
    \/ \E w \in Workers : RunIndexWorker(w)
    \/ RunSyncWorker
    \/ RunMain
    \/ CancelCtx

RunFairness ==
    /\ WF_vars(StreamDocuments)
    /\ WF_vars(RunBatcher)
    /\ \A w \in Workers : WF_vars(RunEmbedWorker(w))
    /\ WF_vars(CloseEmbeddedChan)
    /\ \A w \in Workers : WF_vars(RunIndexWorker(w))
    /\ WF_vars(RunSyncWorker)
    /\ WF_vars(RunMain)

SpecRunLive == RunLiveInit /\ [][RunLiveNext]_vars /\ RunFairness

\* Run has returned and every goroutine it started has exited
RunAllExited ==
    /\ cmd = "run"
    /\ rpc = "done"
    /\ spc \in {"none", "done"}
    /\ bpc \in {"none", "done"}
    /\ \A w \in Workers : wpc[w] \in {"none", "done"} /\ ipc[w] \in {"none", "done"}
    /\ mpc \in {"none", "done"}

\* a closed channel has no sender left that could still send on it
NoSenderAfterClose ==
    /\ docClosed => spc = "done"
    /\ batchClosed => bpc = "done"
    /\ embeddedClosed => \A w \in Workers : wpc[w] = "done"
    /\ updClosed => \A w \in Workers : ipc[w] = "done"

C35_WitnessUncancelled ==
    /\ RunAllExited
    /\ ~ctxDone
    /\ mpc = "done"
    /\ Len(batchLog) = 2
    /\ successCount > 0
    /\ errorCount > 0

(***************************************************************************)
(* SpecCount: one command, Phase 1, Phase 2 or Run, on a collection of     *)
(* NumDocs records and any cache an earlier Phase 1 may have saved; the    *)
(* command may be cancelled at any moment.                                 *)
(***************************************************************************)
CountNext ==
    \/ Phase1Steps
    \/ \E createOk \in CreateOutcomes : Phase2IndexAndUpdate(createOk)
    \/ \E acc \in SUBSET (1..OpenSearchBulkSize), err \in BOOLEAN : Phase2IndexSlice(acc, err)
    \/ \E applied \in SUBSET (1..OpenSearchBulkSize), err \in BOOLEAN : Phase2SyncBatch(applied, err)
    \/ \E limit \in {0, NumDocs - 1}, reindexAll \in BOOLEAN, ok \in BOOLEAN :
           Run(limit, reindexAll, ok)
    \/ RunBatcher
    \/ \E w \in Workers : RunEmbedWorker(w)
    \/ CloseEmbeddedChan
    \/ \E w \in Workers : RunIndexWorker(w)
    \/ RunSyncWorker
    \/ RunMain
    \/ CancelCtx

SpecCount == P1LiveInit /\ [][CountNext]_vars

\* C36: every document is counted once.  A Phase 1 that has returned and
\* was not cancelled has processed + errors + skipped equal to the number
\* of documents streamed; a Phase 2 that has completed has indexed +
\* errors equal to the number of cache entries; a Run that has returned
\* and was not cancelled has successCount + errorCount equal to the
\* number of documents streamed.
C36_EveryDocumentCountedOnce ==
    /\ (Phase1Returned /\ ~ctxDone) => processed + p1errors + skipped = streamed
    /\ (Phase2Returned /\ p2ret = "nil") => indexed + p2errors = Len(p2entries)
    /\ (cmd = "run" /\ rpc = "done" /\ ~ctxDone) => successCount + errorCount = streamed

\* a Phase 1 that skipped, embedded and gave up documents has returned
C36_WitnessPhase1 ==
    /\ Phase1Returned /\ ~ctxDone
    /\ processed > 0 /\ p1errors > 0 /\ skipped > 0

\* a Phase 2 that indexed one entry and failed on another has completed
C36_WitnessPhase2 ==
    /\ Phase2Returned /\ p2ret = "nil"
    /\ indexed > 0 /\ p2errors > 0

\* a Run that streamed every record, lost a batch to an embedding failure
\* and indexed part of another has returned
C36_Witness ==
    /\ cmd = "run" /\ rpc = "done" /\ ~ctxDone
    /\ streamed = NumDocs
    /\ successCount > 0 /\ errorCount > 1

\* the goroutines of Phase 1 that are inside a call of Save
Savers ==
    {w \in Workers : wpc[w] = "save"} \cup (IF p1pc = "save" THEN {0} ELSE {})

\* the snapshot holds the batch whole or not at all
WholeOrAbsent(b, snapshot) ==
    \/ Range(b) \subseteq Range(snapshot)
    \/ Range(b) \cap Range(snapshot) = {}

\* C37: every snapshot a Save of Phase 1 writes to the entries file holds
\* each batch the collector sent either completely or not at all, for any
\* interleaving of the workers; and no two Saves run at the same time: at
\* most one goroutine is inside Save, and a Save starts only when none is
\* under way.
C37_SnapshotsHoldWholeBatches ==
    /\ [](cmd = "phase1" =>
            /\ Cardinality(Savers) <= 1
            /\ svpc # "none" => Cardinality(Savers) = 1)
    /\ [][cmd = "phase1" /\ cmd' = "phase1" =>
            /\ (entriesFile' # entriesFile /\ entriesFile'.st = "ok") =>
                   \A k \in 1..Len(batchLog) : WholeOrAbsent(batchLog[k], entriesFile'.entries)
            /\ (svpc' = "start" /\ (svpc # "start" \/ cacheMu' # cacheMu)) =>
                   svpc = "none"]_vars

\* an autosave wrote a snapshot with one batch of this run while the other
\* batch was in the hands of the second worker, its embeddings obtained
C37_Witness ==
    /\ cmd = "phase1"
    /\ Len(batchLog) = 2
    /\ entriesFile.st = "ok"
    /\ Range(batchLog[1]) \subseteq Range(entriesFile.entries)
       \/ Range(batchLog[2]) \subseteq Range(entriesFile.entries)
    /\ \E w \in Workers : wpc[w] = "lock" /\ Range(wdocs[w]) \cap Range(entriesFile.entries) = {}
    /\ autosaveErr = FALSE
    /\ p1pc = "wait"

\* a worker waits at cacheMu.Lock while the other one is inside Save
C37_WitnessWaiting ==
    /\ cmd = "phase1"
    /\ svpc \in {"meta", "create", "entries"}
    /\ \E w \in Workers : wpc[w] = "lock" /\ cacheMu # 0 /\ cacheMu # w

(***************************************************************************)
(* SpecP1Seq: Phase 1 runs one after the other, each with its own limit    *)
(* and reindexAll, on a store whose record 1 is cross-referenced, starting *)
(* from a cleared cache; a run may fail, be cancelled or be killed.        *)
(***************************************************************************)
P1SeqInit ==
    /\ ParkedEmb
    /\ ParkedCache
    /\ IndexedStores
    /\ \E limit \in {0, NumDocs - 1}, reindexAll \in BOOLEAN : Phase1Idle(limit, reindexAll)
    /\ ParkedPhase2
    /\ ParkedPipeline /\ ParkedRest

\* the arguments of the next call Phase1FetchAndEmbed(ctx, limit, reindexAll)
Phase1Args(limit, reindexAll) ==
    /\ cmd = "none"
    /\ p1pc = "idle"
    /\ <<limit, reindexAll>> # <<p1limit, p1reindexAll>>
    /\ p1limit' = limit
    /\ p1reindexAll' = reindexAll
    /\ UNCHANGED <<p1pc, p1ret, cacheMu, svpc, tpc, processed, p1errors, skipped,
                   loaded, embedSent, embedOk, dropped, finalSave, autosaveErr, resumed>>
    /\ UNCHANGED <<ctxDone, embVars, restVars, cacheVars, storeVars, cmd, p2Vars, pipeVars>>

P1SeqNext ==
    \/ Phase1Steps
    \/ CommandExit
    \/ Crash
    \/ \E limit \in {0, NumDocs - 1}, reindexAll \in BOOLEAN : Phase1Args(limit, reindexAll)

SpecP1Seq == P1SeqInit /\ [][P1SeqNext]_vars

\* no element occurs twice in the sequence
NoDuplicates(q) == \A i, j \in DOMAIN q : q[i] = q[j] => i = j

\* C38: after any sequence of Phase 1 runs since the cache was cleared,
\* completed, failed, cancelled or killed and restarted, no authoritative
\* id has more than one cache entry, in memory or in a saved entries file
\* (the cursor returns each document at most once per run).
C38_OneEntryPerId ==
    /\ NoDuplicates(centries)
    /\ entriesFile.st = "ok" => NoDuplicates(entriesFile.entries)
    /\ processedIDs = Range(centries)

\* a run that was started after a kill, with other arguments, has loaded
\* the entries the killed run saved, skipped their documents and added the
\* entries of the others
C38_Witness ==
    /\ cmd = "phase1"
    /\ resumed
    /\ loaded # {}
    /\ skipped = Cardinality(loaded)
    /\ Range(centries) \ loaded # {}
    /\ entriesFile.st = "ok"
    /\ Len(entriesFile.entries) = NumDocs

(***************************************************************************)
(* SpecKeyFull: the key payload of two search requests with every field    *)
(* of the request body.  A payload is the text JSON.stringify produces,    *)
(* as the sequence of its tokens: punctuation, property names, string      *)
(* literals and number literals.                                           *)
(***************************************************************************)
\* an argument the request leaves out (undefined), or gives
Undefined == [given |-> FALSE, value |-> 0]

Given(v) == [given |-> TRUE, value |-> v]

FullSorts == {[given |-> FALSE, value |-> ""]} \cup {Given(v) : v \in {"relevance", "impact"}}

FullPages == {Undefined} \cup {Given(n) : n \in {1, 2}}

FullPerPages == {Undefined} \cup {Given(n) : n \in {20, 50}}

FullQueries == {"q1", "q2"}

FullFilterObjects ==
    {NoFilters} \cup
    {[defined |-> TRUE, entries |-> e] :
        e \in {<<>>,
               <<(<<"year_from", "">>)>>,
               <<(<<"year_from", "2020">>)>>,
               <<(<<"document_type", "2020">>)>>,
               <<(<<"year_from", "2020">>), (<<"document_type", "null">>)>>}}

FullRequests ==
    [query : FullQueries, filters : FullFilterObjects, sort : FullSorts,
     page : FullPages, per_page : FullPerPages, search_in : KeySearchIns]

\* the decimal text of the numbers of the model
NumText(n) ==
    CASE n = 1 -> "1" [] n = 2 -> "2" [] n = 20 -> "20" [] n = 50 -> "50" [] OTHER -> "NaN"

JsonPunct(c) == <<(<<"punct", c>>)>>

JsonName(k) == <<(<<"name", k>>)>>

JsonStr(str) == <<(<<"string", str>>)>>

JsonNum(n) == <<(<<"number", NumText(n)>>)>>

RECURSIVE JsonItems(_)
JsonItems(list) ==
    IF list = <<>> THEN <<>> ELSE JsonStr(Head(list)) \o JsonItems(Tail(list))

JsonArr(list) == JsonPunct("[") \o JsonItems(list) \o JsonPunct("]")

RECURSIVE JsonProps(_)
JsonProps(entries) ==
    IF entries = <<>> THEN <<>>
    ELSE JsonName(Head(entries)[1]) \o JsonStr(Head(entries)[2]) \o JsonProps(Tail(entries))

JsonObj(entries) == JsonPunct("{") \o JsonProps(entries) \o JsonPunct("}")

\* a _getCacheKey whose payload leaves out perPage
cacheKeyPayloadNoPerPage(query, filters, sort, page, perPage, searchIn) ==
    LET Kept(e) == e[2] \notin {"undefined", "null", ""}
        normalizedFilters ==
            IF filters.defined THEN SelectSeq(filters.entries, Kept) ELSE <<>>
    IN  JsonPunct("{")
        \o JsonName("query") \o JsonStr(query)
        \o JsonName("filters") \o JsonObj(normalizedFilters)
        \o JsonName("sort") \o JsonStr(sort)
        \o JsonName("page") \o JsonNum(page)
        \o JsonName("searchIn")
        \o (IF searchIn.given THEN JsonArr(searchIn.list) ELSE JsonStr("default"))
        \o JsonPunct("}")

\* _getCacheKey: the payload that is hashed.  Filter entries whose value is
\* undefined, null or '' are dropped, absent filters count as {};
\* searchIn || 'default' keeps every array, the empty one too.
cacheKeyPayload(query, filters, sort, page, perPage, searchIn) ==
    LET Kept(e) == e[2] \notin {"undefined", "null", ""}
        normalizedFilters ==
            IF filters.defined THEN SelectSeq(filters.entries, Kept) ELSE <<>>
    IN  JsonPunct("{")
        \o JsonName("query") \o JsonStr(query)
        \o JsonName("filters") \o JsonObj(normalizedFilters)
        \o JsonName("sort") \o JsonStr(sort)
        \o JsonName("page") \o JsonNum(page)
        \o JsonName("perPage") \o JsonNum(perPage)
        \o JsonName("searchIn")
        \o (IF searchIn.given THEN JsonArr(searchIn.list) ELSE JsonStr("default"))
        \o JsonPunct("}")

\* search({ query, filters, sort = 'relevance', page = 1, per_page = 20,
\* search_in = null }): the arguments after the defaults
SortOf(req) == IF req.sort.given THEN req.sort.value ELSE "relevance"

PageOf(req) == IF req.page.given THEN req.page.value ELSE 1

PerPageOf(req) == IF req.per_page.given THEN req.per_page.value ELSE 20

\* the first statement of search
searchCacheKey(req) ==
    cacheKeyPayload(req.query, req.filters, SortOf(req), PageOf(req), PerPageOf(req),
                    req.search_in)

\* search computes the key of each of two requests.
CallSearchCacheKey ==
    /\ fnName = "none"
    /\ fnName' = "search._getCacheKey"
    /\ fnResult' = <<searchCacheKey(fnArgs[1]), searchCacheKey(fnArgs[2])>>
    /\ UNCHANGED <<fnArgs, notFn>>

KeyFullInit ==
    /\ FnInitOthers
    /\ fnName = "none"
    /\ fnArgs \in FullRequests \X FullRequests
    /\ fnResult = <<>>

KeyFullNext == CallSearchCacheKey

SpecKeyFull == KeyFullInit /\ [][KeyFullNext]_vars

\* two requests ask for different things: another query, sort, page,
\* per_page or search_in, or another set of filters with a value
DifferentSearch(a, b) ==
    \/ a.query # b.query
    \/ SortOf(a) # SortOf(b)
    \/ PageOf(a) # PageOf(b)
    \/ PerPageOf(a) # PerPageOf(b)
    \/ a.search_in # b.search_in
    \/ FilterSet(a) # FilterSet(b)

\* C39: two search requests that differ in query, sort, page, per_page,
\* search_in or in a filter value that is not empty have different key
\* payloads, so that (the hash taken to be free of collisions) neither is
\* served from the other's cache entry.
C39_DifferentRequestsDifferentKeys ==
    fnName = "search._getCacheKey" =>
        (DifferentSearch(fnArgs[1], fnArgs[2]) => fnResult[1] # fnResult[2])

\* two requests that differ only in per_page, one of them by leaving it out
C39_Witness ==
    /\ fnName = "search._getCacheKey"
    /\ fnArgs[1].per_page = Undefined
    /\ fnArgs[2].per_page = Given(50)
    /\ \A f \in {"query", "filters", "sort", "page", "search_in"} : fnArgs[1][f] = fnArgs[2][f]
    /\ fnResult[1] # fnResult[2]

\* two requests whose filters hold the same value under different names,
\* and an absent search_in against the empty list
C39_WitnessFilters ==
    /\ fnName = "search._getCacheKey"
    /\ fnArgs[1].filters = [defined |-> TRUE, entries |-> <<(<<"year_from", "2020">>)>>]
    /\ fnArgs[2].filters = [defined |-> TRUE, entries |-> <<(<<"document_type", "2020">>)>>]
    /\ fnArgs[1].search_in = NoSearchIn
    /\ fnArgs[2].search_in = [given |-> TRUE, list |-> <<>>]
    /\ fnResult[1] # fnResult[2]

====
